---- MODULE Spec2Model ----
(***************************************************************************)
(* A model of the jsontree package: compilation of JSONPath queries into   *)
(* a tree of segments (tree.go New, segment.go) and evaluation of that     *)
(* tree against a JSON value (tree.go Select), in ordered and fixed mode.  *)
(*                                                                         *)
(* Go values live in a heap of cells, because Select stores input values   *)
(* in its destination without copying them: a map is a cell reached by its *)
(* address, a slice is (address of the backing array, length). The tree    *)
(* Select is called on lives in the same heap: Select is handed a *Tree,   *)
(* and reads the segments through the pointers the tree holds.             *)
(***************************************************************************)
EXTENDS Integers, Sequences, FiniteSets, TLC

\* ------------------------------------------------------------------ bounds

\* Longest array of an input value.
MaxLen == 2
\* Number of paths compiled into one tree.
MaxPaths == 2
\* Number of segments of one path, and of all paths of one tree together.
MaxSegs == 2
MaxTotalSegs == 3

\* math.MaxInt, the open end of a slice selector, at the width of the
\* model's integers.
MaxInt == 2147483647

\* ---------------------------------------------------------------- helpers

Max2(a, b) == IF a >= b THEN a ELSE b
Min2(a, b) == IF a <= b THEN a ELSE b

\* segment.go abs
abs(x) == IF x < 0 THEN -x ELSE x

\* Go's % truncates toward zero: the result has the sign of the dividend.
GoMod(a, b) == IF a >= 0 THEN a % abs(b) ELSE -((-a) % abs(b))

\* ------------------------------------------------------------- selectors

Name(n) == [k |-> "name", n |-> n]
Index(i) == [k |-> "index", i |-> i]
Slice(start, end, step) == [k |-> "slice", start |-> start, end |-> end, step |-> step]
Wildcard == [k |-> "wild"]
\* A filter selector is known by its canonical string.
Filter(s) == [k |-> "filter", s |-> s]

\* spec.SliceSelector.Bounds of the jsonpath package (RFC 9535, 2.3.4.2.2).
Normalize(i, length) == IF i >= 0 THEN i ELSE length + i

Bounds(s, length) ==
    LET start == Normalize(s.start, length)
        end == Normalize(s.end, length)
    IN  IF s.step > 0
        THEN <<Max2(Min2(start, length), 0), Max2(Min2(end, length), 0)>>
        ELSE IF s.step < 0
        THEN <<Max2(Min2(end, length - 1), -1), Max2(Min2(start, length - 1), -1)>>
        ELSE <<0, 0>>

\* segment.go containsName
containsName(selectors, name) ==
    \E j \in 1..Len(selectors) : selectors[j].k = "name" /\ selectors[j].n = name.n

\* segment.go containsFilter
containsFilter(selectors, filter) ==
    \E j \in 1..Len(selectors) : selectors[j].k = "filter" /\ selectors[j].s = filter.s

\* segment.go containsIndex, the slice s with its bounds b for the size
\* taken from idx and s: "yes" is return true, "next" the next selector.
IndexInSlice(s, idx, b) ==
    LET lower == b[1]
        upper == b[2]
        sel == IF idx.i < 0 THEN upper + idx.i ELSE idx.i
    IN  IF s.step > 0 /\ sel >= lower /\ sel < upper /\ GoMod(sel - lower, s.step) = 0
        THEN "yes"
        ELSE IF s.step = -1 /\ sel <= upper /\ sel > lower
        THEN "yes"
        ELSE "next"

\* One turn of the loop of containsIndex: "yes" and "no" are the returns
\* inside the loop, "next" goes on to the next selector.
IndexStep(s, idx) ==
    IF s.k = "index"
    THEN IF s.i = idx.i THEN "yes" ELSE "next"
    ELSE IF s.k = "slice"
    THEN IF s.start < 0 \/ s.end < 0 \/ (s.end < s.start /\ s.step # -1)
         THEN "no"
         ELSE LET size0 == Max2(abs(idx.i), Max2(s.start, s.end))
                  size == IF size0 # MaxInt THEN size0 + 1 ELSE size0
              IN  IndexInSlice(s, idx, Bounds(s, size))
    ELSE "next"

RECURSIVE containsIndexFrom(_, _, _)
\* The loop of containsIndex after the turn for selector j ended with r.
containsIndexNext(selectors, idx, j, r) ==
    IF r = "yes" THEN TRUE
    ELSE IF r = "no" THEN FALSE
    ELSE containsIndexFrom(selectors, idx, j + 1)

containsIndexFrom(selectors, idx, j) ==
    IF j > Len(selectors) THEN FALSE
    ELSE containsIndexNext(selectors, idx, j, IndexStep(selectors[j], idx))

\* segment.go containsIndex
containsIndex(selectors, idx) == containsIndexFrom(selectors, idx, 1)

\* What a function of segment.go that compares slices hands back: the value
\* v it returns, and no panic.
Ret(v) == [panic |-> "", ret |-> v]

\* The operator % of Go with the divisor 0: the function panics and returns
\* no value.
DivideByZero == [panic |-> "integer divide by zero"]

\* segment.go sliceInSlice: sub.Step() % sup.Step() comes first, and panics
\* if sup has the step 0.
sliceInSlice(sub, sup) ==
    IF sup.step = 0 THEN DivideByZero
    ELSE IF GoMod(sub.step, sup.step) # 0 THEN Ret(FALSE)
    ELSE IF sub.step > 0 /\ sup.step > 0
    THEN Ret(sub.start >= sup.start /\ sub.end <= sup.end)
    ELSE IF sub.step < 0 /\ sup.step < 0
    THEN Ret(sub.start <= sup.start /\ sub.end >= sup.end)
    ELSE IF sub.step <= 1 /\ sup.step > 0
    THEN Ret(sub.start < sup.end /\ sub.end >= sup.start - 1)
    ELSE IF sub.step > 0 /\ sup.step < 0
    THEN Ret(sub.end > sup.start /\ sub.start - 1 >= sup.end)
    ELSE Ret(FALSE)

\* segment.go containsSlice, the loop over selectors from selector j: it
\* returns at the first selector that holds slice, and a panic of
\* sliceInSlice on the way ends it.
RECURSIVE containsSliceFrom(_, _, _)

\* r is what sliceInSlice returned for the slice selectors[j].
containsSliceNext(selectors, slice, j, r) ==
    IF r.panic # "" THEN r
    ELSE IF r.ret THEN Ret(TRUE)
    ELSE containsSliceFrom(selectors, slice, j + 1)

containsSliceFrom(selectors, slice, j) ==
    IF j > Len(selectors) THEN Ret(FALSE)
    ELSE IF selectors[j].k = "slice"
    THEN containsSliceNext(selectors, slice, j, sliceInSlice(slice, selectors[j]))
    ELSE IF /\ selectors[j].k = "index"
            /\ \/ /\ slice.start = selectors[j].i
                  /\ slice.end = selectors[j].i + 1
                  /\ slice.step > 0
               \/ /\ slice.start = selectors[j].i + 1
                  /\ slice.end = selectors[j].i
                  /\ slice.step < 0
    THEN Ret(TRUE)
    ELSE containsSliceFrom(selectors, slice, j + 1)

\* segment.go containsSlice
containsSlice(selectors, slice) ==
    IF \/ slice.step = 0
       \/ slice.start = slice.end
       \/ (slice.step > 0 /\ slice.start > slice.end)
       \/ (slice.step < 0 /\ slice.start < slice.end)
    THEN Ret(TRUE)
    ELSE containsSliceFrom(selectors, slice, 1)

\* segment.go isWildcard, on a list of selectors
isWildcardList(selectors) == Len(selectors) = 1 /\ selectors[1].k = "wild"

\* segment.go selectorsContain
selectorsContain(selectors, sel) ==
    IF isWildcardList(selectors) THEN Ret(TRUE)
    ELSE IF sel.k = "wild" THEN Ret(FALSE)
    ELSE IF sel.k = "name" THEN Ret(containsName(selectors, sel))
    ELSE IF sel.k = "index" THEN Ret(containsIndex(selectors, sel))
    ELSE IF sel.k = "slice" THEN containsSlice(selectors, sel)
    ELSE Ret(containsFilter(selectors, sel))

\* ---------------------------------------------------------------- segments

\* segment.go Segment. A parsed path is a sequence of spec segments,
\* [descendant, selectors], as the jsonpath parser hands them over.
Seg(selectors, children, descendant) ==
    [selectors |-> selectors, children |-> children, descendant |-> descendant]

\* segment.go Child
Child(selectors) == Seg(selectors, <<>>, FALSE)

\* segment.go hasSelectors, the loop from selector j: it returns false at
\* the first selector seg does not hold.
RECURSIVE hasSelectorsFrom(_, _, _)

\* r is what hasSelector returned for selectors[j].
hasSelectorsNext(seg, selectors, j, r) ==
    IF r.panic # "" THEN r
    ELSE IF ~r.ret THEN Ret(FALSE)
    ELSE hasSelectorsFrom(seg, selectors, j + 1)

hasSelectorsFrom(seg, selectors, j) ==
    IF j > Len(selectors) THEN Ret(TRUE)
    ELSE hasSelectorsNext(seg, selectors, j, selectorsContain(seg.selectors, selectors[j]))

\* segment.go hasSelectors, on the selectors of seg
hasSelectors(seg, selectors) == hasSelectorsFrom(seg, selectors, 1)

\* segment.go hasSameSelectors
hasSameSelectors(seg, selectors) ==
    IF Len(seg.selectors) # Len(selectors) THEN Ret(FALSE) ELSE hasSelectors(seg, selectors)

\* segment.go isWildcard
isWildcard(seg) == isWildcardList(seg.selectors)

\* segment.go hasExactSelector
hasExactSelector(seg, sel) ==
    IF sel.k = "wild" THEN isWildcard(seg)
    ELSE IF sel.k = "name" THEN containsName(seg.selectors, sel)
    ELSE IF sel.k = "filter" THEN containsFilter(seg.selectors, sel)
    ELSE \E j \in 1..Len(seg.selectors) : seg.selectors[j] = sel

\* segment.go hasExactSelectors
hasExactSelectors(seg, selectors) ==
    /\ Len(seg.selectors) = Len(selectors)
    /\ \A j \in 1..Len(selectors) : hasExactSelector(seg, selectors[j])

\* segment.go isBranch: the chain below seg is specSeg, selector for selector.
RECURSIVE isBranchFrom(_, _, _)

\* r is what hasSelectors returned for the only child of cur.
isBranchNext(cur, specSeg, j, r) ==
    IF r.panic # "" THEN r
    ELSE IF ~r.ret THEN Ret(FALSE)
    ELSE isBranchFrom(cur.children[1], specSeg, j + 1)

isBranchFrom(cur, specSeg, j) ==
    IF j > Len(specSeg) THEN Ret(Len(cur.children) = 0)
    ELSE IF Len(cur.children) # 1 THEN Ret(FALSE)
    ELSE IF cur.children[1].descendant # specSeg[j].descendant THEN Ret(FALSE)
    ELSE IF Len(cur.children[1].selectors) # Len(specSeg[j].selectors) THEN Ret(FALSE)
    ELSE isBranchNext(cur, specSeg, j,
                      hasSelectors(cur.children[1], specSeg[j].selectors))

isBranch(seg, specSeg) == isBranchFrom(seg, specSeg, 1)

\* segment.go mergeSelectors, on a list of selectors
RECURSIVE mergeSelectorList(_, _, _)

\* r is what hasSelector returned for selectors[j].
mergeSelectorNext(into, selectors, j, r) ==
    IF r.panic # "" THEN r
    ELSE mergeSelectorList(IF r.ret THEN into ELSE Append(into, selectors[j]),
                           selectors, j + 1)

mergeSelectorList(into, selectors, j) ==
    IF j > Len(selectors) THEN Ret(into)
    ELSE mergeSelectorNext(into, selectors, j, selectorsContain(into, selectors[j]))

\* segment.go mergeSelectors, the end: seg holds the selectors r.ret.
mergeSelectorsInto(seg, r) ==
    IF r.panic # "" THEN r ELSE Ret([seg EXCEPT !.selectors = r.ret])

\* segment.go mergeSelectors
mergeSelectors(seg, selectors) ==
    mergeSelectorsInto(seg, mergeSelectorList(seg.selectors, selectors, 1))

\* segment.go mergeSlices: the loop over seg.selectors, merged so far.
\* SliceScan is the inner loop over merged: "skip", <<"replace", i>> or "append".
RECURSIVE SliceScan(_, _, _)

\* r is what sliceInSlice(ss, sel) returned for ss = merged[i].
SliceScanSecond(merged, sel, i, r) ==
    IF r.panic # "" THEN r
    ELSE IF r.ret THEN Ret(<<"replace", i>>)
    ELSE SliceScan(merged, sel, i + 1)

\* r is what sliceInSlice(sel, ss) returned for ss = merged[i].
SliceScanFirst(merged, sel, i, r) ==
    IF r.panic # "" THEN r
    ELSE IF r.ret THEN Ret(<<"skip", 0>>)
    ELSE SliceScanSecond(merged, sel, i, sliceInSlice(merged[i], sel))

SliceScan(merged, sel, i) ==
    IF i > Len(merged) THEN Ret(<<"append", 0>>)
    ELSE IF merged[i].k # "slice" THEN SliceScan(merged, sel, i + 1)
    ELSE SliceScanFirst(merged, sel, i, sliceInSlice(sel, merged[i]))

\* segment.go mergeSlices, what one selector makes of merged, r being what
\* the inner loop found.
mergeSliceStep(merged, sel, r) ==
    CASE r[1] = "skip" -> merged
      [] r[1] = "replace" -> [merged EXCEPT ![r[2]] = sel]
      [] OTHER -> Append(merged, sel)

RECURSIVE mergeSliceList(_, _, _)

\* r is what the inner loop returned for selectors[j].
mergeSliceNext(selectors, merged, j, r) ==
    IF r.panic # "" THEN r
    ELSE mergeSliceList(selectors, mergeSliceStep(merged, selectors[j], r.ret), j + 1)

mergeSliceList(selectors, merged, j) ==
    IF j > Len(selectors) THEN Ret(merged)
    ELSE mergeSliceNext(selectors, merged, j,
            IF selectors[j].k = "slice" THEN SliceScan(merged, selectors[j], 1)
            ELSE Ret(<<"append", 0>>))

\* segment.go mergeSlices, the end: seg takes merged, r.ret, if it is shorter.
mergeSlicesInto(seg, r) ==
    IF r.panic # "" THEN r
    ELSE IF Len(r.ret) # Len(seg.selectors) THEN Ret([seg EXCEPT !.selectors = r.ret])
    ELSE Ret(seg)

\* segment.go mergeSlices
mergeSlices(seg) == mergeSlicesInto(seg, mergeSliceList(seg.selectors, <<>>, 1))

\* segment.go removeCommonSelectorsFrom, the loop over seg2.selectors from
\* selector j: u holds the selectors of seg2 that seg lacks.
RECURSIVE uniqueSelFrom(_, _, _, _)

\* r is what hasSelector returned for seg2.selectors[j].
uniqueSelNext(seg, seg2, u, j, r) ==
    IF r.panic # "" THEN r
    ELSE uniqueSelFrom(seg, seg2, IF r.ret THEN u ELSE Append(u, seg2.selectors[j]), j + 1)

uniqueSelFrom(seg, seg2, u, j) ==
    IF j > Len(seg2.selectors) THEN Ret(u)
    ELSE uniqueSelNext(seg, seg2, u, j, selectorsContain(seg.selectors, seg2.selectors[j]))

uniqueSel(seg, seg2) == uniqueSelFrom(seg, seg2, <<>>, 1)

\* segment.go removeCommonSelectorsFrom, the end: seg2 keeps the selectors
\* r.ret.
removeCommonInto(seg2, r) ==
    IF r.panic # "" THEN r
    ELSE IF Len(r.ret) = Len(seg2.selectors)
    THEN [panic |-> "", seg2 |-> seg2, all |-> FALSE]
    ELSE [panic |-> "", seg2 |-> [seg2 EXCEPT !.selectors = r.ret], all |-> Len(r.ret) = 0]

\* segment.go removeCommonSelectorsFrom: seg2 afterwards, and the result.
removeCommonSelectorsFrom(seg, seg2) == removeCommonInto(seg2, uniqueSel(seg, seg2))

\* segment.go sameBranches
RECURSIVE sameBranches(_, _)
sameBranches(seg, seg2) ==
    /\ Len(seg.children) = Len(seg2.children)
    /\ \A i \in 1..Len(seg.children) :
          \E j \in 1..Len(seg2.children) :
             /\ hasExactSelectors(seg.children[i], seg2.children[j].selectors)
             /\ sameBranches(seg.children[i], seg2.children[j])

\* ------------------------------------------------------------ compilation

\* tree.go selectorsFor: the comparison handed to slices.SortFunc.
sortCmp(a, b) ==
    IF a.k = "wild" THEN -1
    ELSE IF a.k = "slice" THEN (IF b.k = "slice" THEN 0 ELSE -1)
    ELSE IF b.k = "wild" \/ b.k = "slice" THEN 1
    ELSE 0

\* slices.SortFunc on a short list is an insertion sort: data[j] moves down
\* while it compares less than its predecessor.
RECURSIVE sinkDown(_, _)
sinkDown(data, j) ==
    IF j > 1 /\ sortCmp(data[j], data[j - 1]) < 0
    THEN sinkDown([data EXCEPT ![j] = data[j - 1], ![j - 1] = data[j]], j - 1)
    ELSE data

RECURSIVE insertionSort(_, _)
insertionSort(data, i) ==
    IF i > Len(data) THEN data ELSE insertionSort(sinkDown(data, i), i + 1)

\* tree.go selectorsFor, the loop over the sorted selectors. ret never holds
\* a slice of step 0, containsSlice returning true for one before it looks
\* at ret, so that selectorsContain(ret, sel) does not panic.
RECURSIVE dedupSelectors(_, _, _)
dedupSelectors(selectors, ret, j) ==
    IF j > Len(selectors) THEN [selectors |-> ret, isWild |-> FALSE]
    ELSE IF selectors[j].k = "wild" THEN [selectors |-> <<Wildcard>>, isWild |-> TRUE]
    ELSE dedupSelectors(selectors,
            IF selectorsContain(ret, selectors[j]).ret THEN ret
            ELSE Append(ret, selectors[j]),
            j + 1)

\* tree.go selectorsFor
selectorsFor(seg) == dedupSelectors(insertionSort(seg.selectors, 2), <<>>, 1)

\* The segment a cursor (the child numbers from the root down) stands at.
RECURSIVE GetAt(_, _)
GetAt(node, cur) ==
    IF cur = <<>> THEN node ELSE GetAt(node.children[Head(cur)], Tail(cur))

RECURSIVE SetAt(_, _, _)
SetAt(node, cur, new) ==
    IF cur = <<>> THEN new
    ELSE [node EXCEPT !.children[Head(cur)] = SetAt(node.children[Head(cur)], Tail(cur), new)]

\* tree.go newChild
newChild(cur, seg, selectors) ==
    [cur EXCEPT !.children = Append(cur.children, Seg(selectors, <<>>, seg.descendant))]

\* tree.go New, the loop over cur.children for one parsed segment: what
\* the first child that matches makes of node. go is "seg" (continue SEG
\* with cur at child j), "path" (continue PATH) or "none" (no child matched).
\* The selectors of every segment of the tree come from selectorsFor, which
\* returns no slice of step 0: isBranch, hasSameSelectors, mergeSelectors
\* and deduplicate do not panic in New, and New takes what they return.
RECURSIVE scanChildren(_, _, _, _, _, _)
scanChildren(node, seg, sf, rest, isLast, j) ==
    IF j > Len(node.children) THEN [go |-> "none", node |-> node, j |-> 0]
    ELSE LET child == node.children[j]
         IN  IF child.descendant = seg.descendant
             THEN IF isBranch(child, rest).ret
                  THEN [go |-> "seg", j |-> j,
                        node |-> [node EXCEPT !.children[j] =
                                     mergeSelectors(child, sf.selectors).ret]]
                  ELSE IF hasSameSelectors(child, sf.selectors).ret
                  THEN IF Len(child.children) = 0
                       THEN [go |-> "path", node |-> node, j |-> j]
                       ELSE IF isLast
                       THEN [go |-> "path", j |-> j,
                             node |-> [node EXCEPT !.children[j].children = <<>>]]
                       ELSE [go |-> "seg", node |-> node, j |-> j]
                  ELSE scanChildren(node, seg, sf, rest, isLast, j + 1)
             ELSE IF /\ sf.isWild /\ ~child.descendant /\ isWildcard(child)
                     /\ isBranch(child, rest).ret
             THEN [go |-> "seg", j |-> j,
                   node |-> [node EXCEPT !.children[j].descendant = TRUE]]
             ELSE scanChildren(node, seg, sf, rest, isLast, j + 1)

\* tree.go New, the loop SEG over the segments of one path, from segment i
\* with the cursor at cur: the root and the cursor afterwards. The loop ends
\* either after the last segment, and then "cur = root" runs, or by
\* "continue PATH", which skips that assignment and leaves cur where it is.
RECURSIVE foldSegs(_, _, _, _)

\* No child matched: the segment at cur has become grown, its new child last.
foldGrown(root, cur, segs, i, grown) ==
    foldSegs(SetAt(root, cur, grown), Append(cur, Len(grown.children)), segs, i + 1)

\* The loop over cur.children ended with r.
foldScanned(root, cur, segs, i, sf, r) ==
    IF r.go = "path" THEN [root |-> SetAt(root, cur, r.node), cur |-> cur]
    ELSE IF r.go = "seg"
    THEN foldSegs(SetAt(root, cur, r.node), Append(cur, r.j), segs, i + 1)
    ELSE foldGrown(root, cur, segs, i, newChild(r.node, segs[i], sf.selectors))

\* One turn of the loop SEG, sf being what selectorsFor returned.
foldSeg(root, cur, segs, i, sf) ==
    IF sf.isWild /\ i = Len(segs)
    THEN foldSegs(root, cur, segs, i + 1)
    ELSE foldScanned(root, cur, segs, i, sf,
            scanChildren(GetAt(root, cur), segs[i], sf,
                         SubSeq(segs, i + 1, Len(segs)), i = Len(segs), 1))

foldSegs(root, cur, segs, i) ==
    IF i > Len(segs) THEN [root |-> root, cur |-> <<>>]
    ELSE foldSeg(root, cur, segs, i, selectorsFor(segs[i]))

\* tree.go New, the loop PATH, r holding the root and the cursor. cur is
\* declared outside the loop, so the next path starts where the last one
\* left it.
RECURSIVE foldPaths(_, _, _)
foldPaths(r, paths, p) ==
    IF p > Len(paths) THEN r.root
    ELSE foldPaths(foldSegs(r.root, r.cur, paths[p], 1), paths, p + 1)

\* segment.go deduplicate, the loop over merged for one child. store holds
\* the children of seg by their number (merged holds pointers to them, and a
\* child can come to stand in it twice), c is the number of child.
RECURSIVE dedupScan(_, _, _, _, _)

\* child is a descendant segment and prev is not: prev has lost the
\* selectors it shared with child, r telling whether that was all of them.
dedupFromPrev(store, merged, c, i, r) ==
    IF r.panic # "" THEN r
    ELSE dedupScan([store EXCEPT ![merged[i]] = r.seg2],
                   IF r.all THEN [merged EXCEPT ![i] = c] ELSE merged,
                   c, r.all, i + 1)

\* prev is a descendant segment and child is not: child has lost them.
dedupFromChild(store, merged, c, i, r) ==
    IF r.panic # "" THEN r
    ELSE dedupScan([store EXCEPT ![c] = r.seg2], merged, c, r.all, i + 1)

\* prev and child are of one kind: prev has taken the selectors of child, r
\* being what mergeSelectors returned.
dedupMerged(store, merged, c, i, r) ==
    IF r.panic # "" THEN r
    ELSE dedupScan([store EXCEPT ![merged[i]] = r.ret], merged, c, TRUE, i + 1)

dedupScan(store, merged, c, skip, i) ==
    IF i > Len(merged)
    THEN [panic |-> "", store |-> store, merged |-> merged, skip |-> skip]
    ELSE LET prev == store[merged[i]]
             child == store[c]
         IN  IF ~sameBranches(prev, child) THEN dedupScan(store, merged, c, skip, i + 1)
             ELSE IF prev.descendant = child.descendant
             THEN dedupMerged(store, merged, c, i, mergeSelectors(prev, child.selectors))
             ELSE IF child.descendant
             THEN dedupFromPrev(store, merged, c, i, removeCommonSelectorsFrom(child, prev))
             ELSE dedupFromChild(store, merged, c, i, removeCommonSelectorsFrom(prev, child))

RECURSIVE deduplicate(_)
RECURSIVE dedupChildren(_, _, _)

\* segment.go deduplicate, the end of the turn for child c: it is appended
\* to merged unless the loop over merged said to skip it.
dedupNext(r, c) ==
    IF r.panic # "" THEN r
    ELSE dedupChildren(r.store, IF r.skip THEN r.merged ELSE Append(r.merged, c), c + 1)

\* child.deduplicate() has returned r for child c: the loop over merged.
dedupChild(store, merged, c, r) ==
    IF r.panic # "" THEN r
    ELSE dedupNext(dedupScan([store EXCEPT ![c] = r.ret], merged, c, FALSE, 1), c)

dedupChildren(store, merged, c) ==
    IF c > Len(store) THEN [panic |-> "", store |-> store, merged |-> merged]
    ELSE dedupChild(store, merged, c, deduplicate(store[c]))

\* segment.go deduplicate, the end: seg takes merged if it is shorter.
dedupInto(seg, r) ==
    IF r.panic # "" THEN r
    ELSE mergeSlices([seg EXCEPT !.children =
                        IF Len(r.merged) # Len(seg.children)
                        THEN [i \in 1..Len(r.merged) |-> r.store[r.merged[i]]]
                        ELSE r.store])

\* segment.go deduplicate
deduplicate(seg) == dedupInto(seg, dedupChildren(seg.children, <<>>, 1))

\* tree.go New: the root of the compiled tree.
New(paths) == deduplicate(foldPaths([root |-> Child(<<>>), cur |-> <<>>], paths, 1)).ret

\* ------------------------------------------------------------ JSON values

\* A JSON value: null, a number, an array or an object.
JNull == [t |-> "null"]
JNum(n) == [t |-> "num", n |-> n]
JArr(e) == [t |-> "arr", e |-> e]
JObj(f) == [t |-> "obj", f |-> f]

\* The keys of the model. Go visits the keys of a map in an order of its
\* choosing, another one for every range statement. The turn of a key reads
\* and writes nothing the turn of another key does, so that a loop which
\* ends without a panic ends in the same way in every order: the model
\* takes the keys in the order of KeyOrder, keysOf(f), first, and if that
\* loop ends with a panic it takes them in every other order too (Orders),
\* since the order decides which turns ran before the panic.
KeyOrder == <<"a", "b">>

keysOf(f) ==
    LET In(k) == k \in DOMAIN f
    IN  SelectSeq(KeyOrder, In)

\* The orders Go can visit the keys ks in.
Orders(ks) ==
    {[i \in 1..Len(ks) |-> ks[q[i]]] :
        q \in {r \in [1..Len(ks) -> 1..Len(ks)] :
                  \A i, j \in 1..Len(ks) : r[i] = r[j] => i = j}}

\* ------------------------------------------------------------------- heap

\* What a Go variable of type any holds: nil, a number, the marker null
\* (tree.go nullVal), a map (its address) or a slice (the address of its
\* backing array, its length and its capacity, every slice of the program
\* starting at element 0). The capacity is the length of the backing array
\* until slices.Clip cuts it down to the length of the slice.
HNil == [t |-> "nil"]
HNum(n) == [t |-> "num", n |-> n]
HNullVal == [t |-> "nullVal"]
HObj(a) == [t |-> "obj", a |-> a]
HArr(a, len, cap) == [t |-> "arr", a |-> a, len |-> len, cap |-> cap]

\* The state of one call: the heap, and the panic that ended it ("" if none).
\* alts holds the heaps and panics the call ends with when Go visits the
\* keys of a map in another order than the model did.
St(h, panic) == [h |-> h, panic |-> panic, alts |-> {}]

\* The ways the call can have ended: the heap, and the panic.
Ends(st) == {[h |-> st.h, panic |-> st.panic]} \cup st.alts

capOf(h, s) == s.cap
elemAt(h, s, i) == h[s.a].e[i + 1]
setElem(h, a, i, v) == [h EXCEPT ![a].e[i + 1] = v]
getKey(h, a, k) == IF k \in DOMAIN h[a].f THEN h[a].f[k] ELSE HNil
setKey(h, a, k, v) ==
    [h EXCEPT ![a].f = [x \in (DOMAIN @) \cup {k} |-> IF x = k THEN v ELSE @[x]]]

\* make(map[string]any) and make([]any, 0, n)
emptyFcn == [x \in {} |-> HNil]
newObj(h) == Append(h, [t |-> "obj", f |-> emptyFcn])
newArr(h, n) == Append(h, [t |-> "arr", e |-> SubSeq([i \in 1..n |-> HNil], 1, n)])

\* The input as json.Unmarshal builds it: every array and object a cell of
\* its own.
RECURSIVE load(_, _)
RECURSIVE loadElems(_, _, _, _)
loadElems(h, e, i, acc) ==
    IF i > Len(e) THEN [h |-> h, acc |-> acc]
    ELSE LET r == load(h, e[i])
         IN  loadElems(r.h, e, i + 1, Append(acc, r.v))

RECURSIVE loadFields(_, _, _, _, _)
loadFields(h, f, ks, i, acc) ==
    IF i > Len(ks) THEN [h |-> h, acc |-> acc]
    ELSE LET r == load(h, f[ks[i]])
         IN  loadFields(r.h, f, ks, i + 1,
                [x \in (DOMAIN acc) \cup {ks[i]} |-> IF x = ks[i] THEN r.v ELSE acc[x]])

load(h, jv) ==
    IF jv.t = "null" THEN [h |-> h, v |-> HNil]
    ELSE IF jv.t = "num" THEN [h |-> h, v |-> HNum(jv.n)]
    ELSE IF jv.t = "arr"
    THEN LET r == loadElems(h, jv.e, 1, <<>>)
         IN  [h |-> Append(r.h, [t |-> "arr", e |-> r.acc]),
              v |-> HArr(Len(r.h) + 1, Len(r.acc), Len(r.acc))]
    ELSE LET r == loadFields(h, jv.f, keysOf(jv.f), 1, emptyFcn)
         IN  [h |-> Append(r.h, [t |-> "obj", f |-> r.acc]), v |-> HObj(Len(r.h) + 1)]

\* The value a caller sees through v: what encoding/json would print, with
\* the marker null shown as itself.
RECURSIVE read(_, _)
read(h, v) ==
    IF v.t = "nil" THEN JNull
    ELSE IF v.t = "num" THEN JNum(v.n)
    ELSE IF v.t = "nullVal" THEN [t |-> "nullVal"]
    ELSE IF v.t = "arr" THEN JArr([i \in 1..v.len |-> read(h, h[v.a].e[i])])
    ELSE JObj([k \in DOMAIN h[v.a].f |-> read(h, h[v.a].f[k])])

\* The tree New returns, as Select is handed it: a *Tree is the address of
\* a cell that holds the address of the root and the mode flag, a *segment
\* the address of a cell that holds the selectors, the addresses of the
\* children and the descendant flag.
RECURSIVE storeSegment(_, _)
RECURSIVE storeChildren(_, _, _, _)
storeChildren(h, children, i, acc) ==
    IF i > Len(children) THEN [h |-> h, acc |-> acc]
    ELSE LET r == storeSegment(h, children[i])
         IN  storeChildren(r.h, children, i + 1, Append(acc, r.v))

storeSegment(h, seg) ==
    LET r == storeChildren(h, seg.children, 1, <<>>)
    IN  [h |-> Append(r.h, [t |-> "seg", selectors |-> seg.selectors, children |-> r.acc,
                            descendant |-> seg.descendant]),
         v |-> Len(r.h) + 1]

\* return &Tree{root: root}, and tree.index as NewFixedModeTree sets it
storeTree(h, tree) ==
    LET r == storeSegment(h, tree.root)
    IN  [h |-> Append(r.h, [t |-> "tree", root |-> r.v, index |-> tree.index]),
         v |-> Len(r.h) + 1]

\* The segment a *segment points to, with the segments below it, and the
\* tree a *Tree points to: what a caller of the tree finds in it.
RECURSIVE segmentAt(_, _)
segmentAt(h, seg) ==
    Seg(h[seg].selectors,
        [j \in 1..Len(h[seg].children) |-> segmentAt(h, h[seg].children[j])],
        h[seg].descendant)

treeAt(h, tree) == [root |-> segmentAt(h, h[tree].root), index |-> h[tree].index]

\* -------------------------------------------------------------- evaluation

\* spec.FilterSelector.Eval of the jsonpath package, for the one filter of
\* the model, ?@ == 1: the value is the number 1.
filterEval(sel, v, root) == v.t = "num" /\ v.n = 1

RECURSIVE selectObjectSegment(_, _, _, _, _, _)
RECURSIVE selectObject(_, _, _, _, _, _)
RECURSIVE descendObject(_, _, _, _, _, _)
RECURSIVE processKey(_, _, _, _, _, _, _)
RECURSIVE dispatchObject(_, _, _, _, _, _)
RECURSIVE dispatchArray(_, _, _, _, _, _)
RECURSIVE selectArraySegment(_, _, _, _, _, _)
RECURSIVE selectArray(_, _, _, _, _, _)
RECURSIVE processIndex(_, _, _, _, _, _, _)
RECURSIVE processSlice(_, _, _, _, _, _, _)
RECURSIVE descendArray(_, _, _, _, _, _)

\* tree.go insert: the slice afterwards.
insert(tree, idx, dst, val, st) ==
    IF st.panic # "" THEN [st |-> st, dst |-> dst]
    ELSE IF idx >= dst.len /\ idx + 1 > capOf(st.h, dst)
    THEN [st |-> St(st.h, "slice bounds out of range"), dst |-> dst]
    ELSE IF idx < 0
    THEN [st |-> St(st.h, "index out of range"), dst |-> dst]
    ELSE LET grown == IF idx >= dst.len THEN HArr(dst.a, idx + 1, dst.cap) ELSE dst
             put == IF ~st.h[tree].index /\ val = HNil THEN HNullVal ELSE val
         IN  [st |-> St(setElem(st.h, dst.a, idx, put), ""), dst |-> grown]

\* tree.go selectObjectSegment, the loop over seg.children
RECURSIVE objectChildren(_, _, _, _, _, _, _)
objectChildren(tree, seg, root, cur, dst, st, j) ==
    IF j > Len(st.h[seg].children) \/ st.panic # "" THEN st
    ELSE objectChildren(tree, seg, root, cur, dst,
            selectObject(tree, st.h[seg].children[j], root, cur, dst, st), j + 1)

\* tree.go selectObjectSegment; cur and dst are the addresses of two maps.
selectObjectSegment(tree, seg, root, cur, dst, st) ==
    objectChildren(tree, seg, root, cur, dst, selectObject(tree, seg, root, cur, dst, st), 1)

\* tree.go selectObject, the loops over the keys of cur for a wildcard
\* (sel.k = "wild") and for a filter.
RECURSIVE objectKeys(_, _, _, _, _, _, _, _, _)
objectKeys(tree, seg, sel, root, cur, dst, st, ks, i) ==
    IF i > Len(ks) \/ st.panic # "" THEN st
    ELSE objectKeys(tree, seg, sel, root, cur, dst,
            IF sel.k = "wild" \/ filterEval(sel, getKey(st.h, cur, ks[i]), root)
            THEN processKey(tree, ks[i], seg, root, cur, dst, st)
            ELSE st,
            ks, i + 1)

\* tree.go selectObject, for key := range cur: r is how the loop ended for
\* the keys in the order keysOf; after a panic, how it ends in any order.
objectKeysEnded(tree, seg, sel, root, cur, dst, st, r) ==
    IF r.panic = "" THEN r
    ELSE [r EXCEPT !.alts =
            UNION {Ends(objectKeys(tree, seg, sel, root, cur, dst, st, ks, 1)) :
                      ks \in Orders(keysOf(st.h[cur].f))}]

\* tree.go selectObject, the loop over seg.selectors
RECURSIVE objectSelectors(_, _, _, _, _, _, _)
objectSelectors(tree, seg, root, cur, dst, st, j) ==
    IF j > Len(st.h[seg].selectors) \/ st.panic # "" THEN st
    ELSE LET sel == st.h[seg].selectors[j]
         IN  objectSelectors(tree, seg, root, cur, dst,
                IF sel.k = "name" THEN processKey(tree, sel.n, seg, root, cur, dst, st)
                ELSE IF sel.k = "wild" \/ sel.k = "filter"
                THEN objectKeysEnded(tree, seg, sel, root, cur, dst, st,
                        objectKeys(tree, seg, sel, root, cur, dst, st,
                                   keysOf(st.h[cur].f), 1))
                ELSE st,
                j + 1)

\* selectObject never descending into the values of cur.
selectObjectFlat(tree, seg, root, cur, dst, st) == st

\* tree.go selectObject, after the loop over seg.selectors
selectObjectDescend(tree, seg, root, cur, dst, st) ==
    IF st.h[seg].descendant THEN descendObject(tree, seg, root, cur, dst, st) ELSE st

\* tree.go selectObject
selectObject(tree, seg, root, cur, dst, st) ==
    selectObjectDescend(tree, seg, root, cur, dst,
        objectSelectors(tree, seg, root, cur, dst, st, 1))

\* The type switch of processKey, processIndex, descendObject and
\* descendArray on a value of the input: an object and an array go to
\* dispatchObject and dispatchArray, with what the destination holds;
\* nothing is selected from any other value.
dispatch(tree, seg, root, val, dstVal, st) ==
    IF val.t = "obj" THEN dispatchObject(tree, seg, root, val.a, dstVal, st)
    ELSE IF val.t = "arr" THEN dispatchArray(tree, seg, root, val, dstVal, st)
    ELSE [st |-> st, ret |-> HNil]

\* if sub := dispatch...; sub != nil { dst[key] = sub }
storeSub(dst, key, r) ==
    IF r.st.panic = "" /\ r.ret # HNil
    THEN St(setKey(r.st.h, dst, key, r.ret), "")
    ELSE r.st

\* tree.go descendObject, the loop over the keys of cur
RECURSIVE descendKeys(_, _, _, _, _, _, _, _)
descendKeys(tree, seg, root, cur, dst, st, ks, i) ==
    IF i > Len(ks) \/ st.panic # "" THEN st
    ELSE descendKeys(tree, seg, root, cur, dst,
            storeSub(dst, ks[i],
                dispatch(tree, seg, root, getKey(st.h, cur, ks[i]),
                         getKey(st.h, dst, ks[i]), st)),
            ks, i + 1)

\* tree.go descendObject, for key := range cur: r is how the loop ended for
\* the keys in the order keysOf; after a panic, how it ends in any order.
descendKeysEnded(tree, seg, root, cur, dst, st, r) ==
    IF r.panic = "" THEN r
    ELSE [r EXCEPT !.alts =
            UNION {Ends(descendKeys(tree, seg, root, cur, dst, st, ks, 1)) :
                      ks \in Orders(keysOf(st.h[cur].f))}]

\* tree.go descendObject
descendObject(tree, seg, root, cur, dst, st) ==
    IF st.panic # "" THEN st
    ELSE descendKeysEnded(tree, seg, root, cur, dst, st,
            descendKeys(tree, seg, root, cur, dst, st, keysOf(st.h[cur].f), 1))

\* processKey handing the destination map itself, not what it holds under
\* key, to the selection from an object or array value.
processKeyInPlace(tree, key, seg, root, cur, dst, st) ==
    IF st.panic # "" THEN st
    ELSE IF key \notin DOMAIN st.h[cur].f THEN st
    ELSE LET val == st.h[cur].f[key]
         IN  IF Len(st.h[seg].children) = 0 THEN St(setKey(st.h, dst, key, val), "")
             ELSE storeSub(dst, key, dispatch(tree, seg, root, val, HObj(dst), st))

\* tree.go processKey
processKey(tree, key, seg, root, cur, dst, st) ==
    IF st.panic # "" THEN st
    ELSE IF key \notin DOMAIN st.h[cur].f THEN st
    ELSE LET val == st.h[cur].f[key]
         IN  IF Len(st.h[seg].children) = 0 THEN St(setKey(st.h, dst, key, val), "")
             ELSE storeSub(dst, key,
                     dispatch(tree, seg, root, val, getKey(st.h, dst, key), st))

\* tree.go dispatchObject, the end for a new map sub: it is returned if
\* something was selected into it.
dispatchedObject(sub, st1) ==
    IF st1.panic = "" /\ DOMAIN st1.h[sub].f # {}
    THEN [st |-> st1, ret |-> HObj(sub)]
    ELSE [st |-> st1, ret |-> HNil]

\* tree.go dispatchObject; cur is the address of a map, dst what the
\* destination holds: the state afterwards and the map returned, or nil.
dispatchObject(tree, seg, root, cur, dst, st) ==
    IF st.panic # "" THEN [st |-> st, ret |-> HNil]
    ELSE IF dst # HNil
    THEN IF dst.t # "obj"
         THEN [st |-> St(st.h, "expected destination object"), ret |-> HNil]
         ELSE [st |-> selectObjectSegment(tree, seg, root, cur, dst.a, st), ret |-> dst]
    ELSE dispatchedObject(Len(st.h) + 1,
            selectObjectSegment(tree, seg, root, cur, Len(st.h) + 1, St(newObj(st.h), "")))

\* tree.go dispatchArray; cur is a slice, dstVal what the destination
\* holds: the state afterwards and the slice returned, or nil.
dispatchArray(tree, seg, root, cur, dstVal, st) ==
    IF st.panic # "" THEN [st |-> st, ret |-> HNil]
    ELSE IF dstVal = HNil
    THEN selectArraySegment(tree, seg, root, cur, HArr(Len(st.h) + 1, 0, capOf(st.h, cur)),
                            St(newArr(st.h, capOf(st.h, cur)), ""))
    ELSE IF dstVal.t # "arr"
    THEN [st |-> St(st.h, "expected destination array"), ret |-> HNil]
    ELSE selectArraySegment(tree, seg, root, cur, dstVal, st)

\* tree.go selectArraySegment, the loop over seg.children; r holds the
\* state and dst.
RECURSIVE arrayChildren(_, _, _, _, _, _)
arrayChildren(tree, seg, root, cur, r, j) ==
    IF j > Len(r.st.h[seg].children) \/ r.st.panic # "" THEN r
    ELSE arrayChildren(tree, seg, root, cur,
            selectArray(tree, r.st.h[seg].children[j], root, cur, r.dst, r.st), j + 1)

\* tree.go selectArraySegment, the end: the slice returned is nil when it
\* is empty.
selectedArray(r) ==
    [st |-> r.st, ret |-> IF r.st.panic # "" \/ r.dst.len = 0 THEN HNil ELSE r.dst]

\* tree.go selectArraySegment
selectArraySegment(tree, seg, root, cur, dst, st) ==
    selectedArray(arrayChildren(tree, seg, root, cur,
                                selectArray(tree, seg, root, cur, dst, st), 1))

\* tree.go selectArray, the loops over the elements of cur for a wildcard
\* (sel.k = "wild") and for a filter; r holds the state and dst.
RECURSIVE arrayElems(_, _, _, _, _, _, _)
arrayElems(tree, n, sel, root, cur, r, i) ==
    IF i >= cur.len \/ r.st.panic # "" THEN r
    ELSE arrayElems(tree, n, sel, root, cur,
            IF sel.k = "wild" \/ filterEval(sel, elemAt(r.st.h, cur, i), root)
            THEN processIndex(tree, i, n, root, cur, r.dst, r.st)
            ELSE r,
            i + 1)

\* tree.go selectArray, the loop over n.selectors; r holds the state and dst.
RECURSIVE arraySelectors(_, _, _, _, _, _)
arraySelectors(tree, n, root, cur, r, j) ==
    IF j > Len(r.st.h[n].selectors) \/ r.st.panic # "" THEN r
    ELSE LET sel == r.st.h[n].selectors[j]
         IN  arraySelectors(tree, n, root, cur,
                IF sel.k = "index"
                THEN IF sel.i < cur.len
                     THEN processIndex(tree, sel.i, n, root, cur, r.dst, r.st)
                     ELSE r
                ELSE IF sel.k = "wild" \/ sel.k = "filter"
                THEN arrayElems(tree, n, sel, root, cur, r, 0)
                ELSE IF sel.k = "slice"
                THEN processSlice(tree, n, sel, root, cur, r.dst, r.st)
                ELSE r,
                j + 1)

\* tree.go selectArray, after the loop over n.selectors
selectArrayDescend(tree, n, root, cur, r) ==
    IF r.st.h[n].descendant THEN descendArray(tree, n, root, cur, r.dst, r.st) ELSE r

\* tree.go selectArray
selectArray(tree, n, root, cur, dst, st) ==
    selectArrayDescend(tree, n, root, cur,
        arraySelectors(tree, n, root, cur, [st |-> st, dst |-> dst], 1))

\* tree.go processIndex, after the type switch: what the children selected
\* is inserted, or dst is restored to the length it had.
processedIndex(tree, idx, dst, grown, prevLen, r) ==
    IF r.st.panic # "" THEN [st |-> r.st, dst |-> dst]
    ELSE IF r.ret # HNil THEN insert(tree, idx, grown, r.ret, r.st)
    ELSE [st |-> r.st, dst |-> IF prevLen > -1 THEN HArr(dst.a, prevLen, dst.cap) ELSE grown]

\* tree.go processIndex
processIndex(tree, idx, seg, root, cur, dst, st) ==
    IF st.panic # "" THEN [st |-> st, dst |-> dst]
    ELSE IF idx >= dst.len /\ idx + 1 > capOf(st.h, dst)
    THEN [st |-> St(st.h, "slice bounds out of range"), dst |-> dst]
    ELSE IF idx < 0 \/ idx >= cur.len
    THEN [st |-> St(st.h, "index out of range"), dst |-> dst]
    ELSE LET prevLen == IF idx >= dst.len THEN dst.len ELSE -1
             grown == IF idx >= dst.len THEN HArr(dst.a, idx + 1, dst.cap) ELSE dst
             val == elemAt(st.h, cur, idx)
         IN  IF Len(st.h[seg].children) = 0 THEN insert(tree, idx, grown, val, st)
             ELSE processedIndex(tree, idx, dst, grown, prevLen,
                     dispatch(tree, seg, root, val, elemAt(st.h, grown, idx), st))

\* tree.go processSlice, the loop from i by step: forward while i < upper,
\* backward while lower < i; r holds the state and dst.
RECURSIVE sliceLoop(_, _, _, _, _, _, _, _, _)
sliceLoop(tree, seg, step, root, cur, r, i, lower, upper) ==
    IF r.st.panic # "" \/ (step > 0 /\ ~(i < upper)) \/ (step < 0 /\ ~(lower < i))
    THEN r
    ELSE sliceLoop(tree, seg, step, root, cur,
            processIndex(tree, i, seg, root, cur, r.dst, r.st), i + step, lower, upper)

\* tree.go processSlice, with the bounds b of sel for the length of cur
processSliceIn(tree, seg, sel, root, cur, r, b) ==
    IF sel.step > 0 THEN sliceLoop(tree, seg, sel.step, root, cur, r, b[1], b[1], b[2])
    ELSE IF sel.step < 0 THEN sliceLoop(tree, seg, sel.step, root, cur, r, b[2], b[1], b[2])
    ELSE r

\* processSlice keeping the bounds it computed for cur in the selector of
\* the segment.
processSliceKeepingBounds(tree, seg, sel, root, cur, dst, st) ==
    processSliceIn(tree, seg, sel, root, cur,
        [st |-> [st EXCEPT !.h[seg].selectors =
                    [j \in DOMAIN @ |-> IF @[j] = sel
                                        THEN Slice(Bounds(sel, cur.len)[1],
                                                   Bounds(sel, cur.len)[2], sel.step)
                                        ELSE @[j]]],
         dst |-> dst],
        Bounds(sel, cur.len))

\* tree.go processSlice
processSlice(tree, seg, sel, root, cur, dst, st) ==
    processSliceIn(tree, seg, sel, root, cur, [st |-> st, dst |-> dst], Bounds(sel, cur.len))

\* tree.go descendArray, one element: what was selected from it is inserted.
descendedElem(tree, i, dst, r) ==
    IF r.st.panic = "" /\ r.ret # HNil
    THEN insert(tree, i, dst, r.ret, r.st)
    ELSE [st |-> r.st, dst |-> dst]

\* tree.go descendArray, the loop over the elements of cur; dstLen is the
\* length dst had when the loop began, r holds the state and dst.
RECURSIVE descendElems(_, _, _, _, _, _, _)
descendElems(tree, seg, root, cur, r, dstLen, i) ==
    IF i >= cur.len \/ r.st.panic # "" THEN r
    ELSE descendElems(tree, seg, root, cur,
            descendedElem(tree, i, r.dst,
                dispatch(tree, seg, root, elemAt(r.st.h, cur, i),
                         IF i < dstLen THEN elemAt(r.st.h, r.dst, i) ELSE HNil, r.st)),
            dstLen, i + 1)

\* tree.go descendArray
descendArray(tree, seg, root, cur, dst, st) ==
    descendElems(tree, seg, root, cur, [st |-> st, dst |-> dst], dst.len, 0)

\* tree.go compressArray and compressObject. ret = array[:0] shares the
\* backing array of array: append writes element w of that array. The
\* slice returned is slices.Clip(ret): its capacity is its length.
RECURSIVE compressArray(_, _)
RECURSIVE compressObject(_, _)

\* ret = append(ret, compressArray(v)), r being what compressArray returned
appendCompressed(array, w, r) == St(setElem(r.st.h, array.a, w, r.ret), "")

RECURSIVE compressElems(_, _, _, _)
compressElems(array, st, i, w) ==
    IF i >= array.len THEN [st |-> st, ret |-> HArr(array.a, w, w)]
    ELSE LET v == elemAt(st.h, array, i)
         IN  IF v.t = "nullVal"
             THEN compressElems(array, St(setElem(st.h, array.a, w, HNil), ""), i + 1, w + 1)
             ELSE IF v.t = "arr"
             THEN compressElems(array, appendCompressed(array, w, compressArray(v, st)),
                                i + 1, w + 1)
             ELSE IF v.t = "obj"
             THEN compressElems(array,
                                St(setElem(compressObject(v.a, st).h, array.a, w, v), ""),
                                i + 1, w + 1)
             ELSE IF v.t = "nil" THEN compressElems(array, st, i + 1, w)
             ELSE compressElems(array, St(setElem(st.h, array.a, w, v), ""), i + 1, w + 1)

compressArray(array, st) == compressElems(array, st, 0, 0)

\* object[k] = compressArray(v), r being what compressArray returned
storeCompressed(object, key, r) == St(setKey(r.st.h, object, key, r.ret), "")

RECURSIVE compressKeys(_, _, _, _)
compressKeys(object, st, ks, i) ==
    IF i > Len(ks) THEN st
    ELSE LET v == getKey(st.h, object, ks[i])
         IN  IF v.t = "arr"
             THEN compressKeys(object, storeCompressed(object, ks[i], compressArray(v, st)),
                               ks, i + 1)
             ELSE IF v.t = "obj"
             THEN compressKeys(object, compressObject(v.a, st), ks, i + 1)
             ELSE compressKeys(object, st, ks, i + 1)

compressObject(object, st) == compressKeys(object, st, keysOf(st.h[object].f), 1)

\* tree.go Select, an object: the map ret after selectObjectSegment.
selectedFromObject(tree, ret, st1) ==
    IF st1.panic # "" THEN [st |-> st1, ret |-> HNil]
    ELSE IF st1.h[tree].index THEN [st |-> st1, ret |-> HObj(ret)]
    ELSE [st |-> compressObject(ret, st1), ret |-> HObj(ret)]

\* Select compressing the array it selected in fixed mode too.
selectedFromArrayCompressed(tree, ret, r) ==
    IF r.st.panic # "" THEN [st |-> r.st, ret |-> HNil]
    ELSE IF r.ret # HNil THEN compressArray(r.ret, r.st)
    ELSE [st |-> r.st, ret |-> ret]

\* tree.go Select, an array: r is what selectArraySegment returned, ret the
\* empty slice made for it.
selectedFromArray(tree, ret, r) ==
    IF r.st.panic # "" THEN [st |-> r.st, ret |-> HNil]
    ELSE IF r.ret # HNil
    THEN IF r.st.h[tree].index THEN r ELSE compressArray(r.ret, r.st)
    ELSE [st |-> r.st, ret |-> ret]

\* Select without the return of the input for a tree with no children: the
\* root's segment is applied to every input.
SelectAlways(tree, from, h) ==
    IF from.t = "obj"
    THEN selectedFromObject(tree, Len(h) + 1,
            selectObjectSegment(tree, h[tree].root, from, from.a, Len(h) + 1, St(newObj(h), "")))
    ELSE IF from.t = "arr"
    THEN selectedFromArray(tree, HArr(Len(h) + 1, 0, capOf(h, from)),
            selectArraySegment(tree, h[tree].root, from, from, HArr(Len(h) + 1, 0, capOf(h, from)),
                               St(newArr(h, capOf(h, from)), "")))
    ELSE [st |-> St(h, ""), ret |-> HNil]

\* tree.go Select; tree is the address of the tree, from what the caller
\* passes: the heap afterwards, the panic that ended the call if one did, and the value
\* returned.
Select(tree, from, h) ==
    IF Len(h[h[tree].root].children) = 0 THEN [st |-> St(h, ""), ret |-> from]
    ELSE IF from.t = "obj"
    THEN selectedFromObject(tree, Len(h) + 1,
            selectObjectSegment(tree, h[tree].root, from, from.a, Len(h) + 1, St(newObj(h), "")))
    ELSE IF from.t = "arr"
    THEN selectedFromArray(tree, HArr(Len(h) + 1, 0, capOf(h, from)),
            selectArraySegment(tree, h[tree].root, from, from, HArr(Len(h) + 1, 0, capOf(h, from)),
                               St(newArr(h, capOf(h, from)), "")))
    ELSE [st |-> St(h, ""), ret |-> HNil]

\* ------------------------------------------------------------ the program

\* All sequences over S of length at most n.
RECURSIVE SeqsUpTo(_, _)
SeqsUpTo(S, n) ==
    IF n = 0 THEN {<<>>}
    ELSE LET shorter == SeqsUpTo(S, n - 1)
         IN  shorter \cup {Append(q, x) : q \in {r \in shorter : Len(r) = n - 1}, x \in S}

\* The parsed segments paths are made of: [<selectors>] and ..[<selectors>].
SpecSeg(descendant, selectors) == [descendant |-> descendant, selectors |-> selectors]

Selectors == {Name("a"), Name("b"), Index(1), Index(-1), Wildcard}

SpecSegs ==
    {SpecSeg(FALSE, <<x>>) : x \in Selectors}
        \cup {SpecSeg(TRUE, <<Name("b")>>), SpecSeg(FALSE, <<Index(1), Index(0)>>)}

RECURSIVE totalSegs(_, _)
totalSegs(ps, i) == IF i > Len(ps) THEN 0 ELSE Len(ps[i]) + totalSegs(ps, i + 1)

\* The paths handed to New: one to MaxSegs segments each.
Paths == SeqsUpTo(SpecSegs, MaxSegs) \ {<<>>}

\* The values handed to Select: scalars, and arrays and objects nested to
\* depth two.
Scalars == {JNull, JNum(1)}

ArraysOf(S) == {JArr(e) : e \in SeqsUpTo(S, MaxLen)}

ObjectsOf(S) ==
    {JObj(f) : f \in UNION {[K -> S] : K \in SUBSET {KeyOrder[i] : i \in 1..Len(KeyOrder)}}}

Containers1 == ArraysOf(Scalars) \cup ObjectsOf(Scalars)

Inputs == Scalars \cup ArraysOf(Scalars \cup Containers1) \cup ObjectsOf(Scalars \cup Containers1)

VARIABLES paths, tree, pc, input, out, after, panic

vars == <<paths, tree, pc, input, out, after, panic>>

NoTree == [root |-> Child(<<>>), index |-> FALSE]

Init ==
    /\ paths = <<>>
    /\ tree = NoTree
    /\ pc = "paths"
    /\ input = JNull
    /\ out = JNull
    /\ after = JNull
    /\ panic = ""

\* A caller adds one more path to the arguments of New.
AddPath ==
    /\ pc = "paths"
    /\ Len(paths) < MaxPaths
    /\ \E p \in Paths :
          /\ totalSegs(paths, 1) + Len(p) <= MaxTotalSegs
          /\ paths' = Append(paths, p)
    /\ UNCHANGED <<tree, pc, input, out, after, panic>>

\* tree.go New
NewTree ==
    /\ pc = "paths"
    /\ tree' = [root |-> New(paths), index |-> FALSE]
    /\ pc' = "tree"
    /\ UNCHANGED <<paths, input, out, after, panic>>

\* tree.go NewFixedModeTree
NewFixedModeTree ==
    /\ pc = "paths"
    /\ tree' = [root |-> New(paths), index |-> TRUE]
    /\ pc' = "tree"
    /\ UNCHANGED <<paths, input, out, after, panic>>

\* One call of tree.Select(from): out is the value returned, after the
\* value the caller's from holds when the call is over, panic the panic
\* that ended the call, if one did, and tree the tree as the call left it.
DoSelect ==
    /\ pc = "tree"
    /\ \E v \in Inputs :
          \E t \in {storeTree(<<>>, tree)} :
             \E l \in {load(t.h, v)} :
                \E r \in {Select(t.v, l.v, l.h)} :
                   \E e \in Ends(r.st) :
                      /\ input' = v
                      /\ panic' = e.panic
                      /\ out' = IF e.panic = "" THEN read(e.h, r.ret) ELSE JNull
                      /\ after' = read(e.h, l.v)
                      /\ tree' = treeAt(e.h, t.v)
    /\ pc' = "done"
    /\ UNCHANGED paths

Next == AddPath \/ NewTree \/ NewFixedModeTree \/ DoSelect

Spec == Init /\ [][Next]_vars

\* ------------------------------------------------- what the paths select
\* RFC 9535 read as a definition: the locations of a value a path selects,
\* and the projection of the value onto a set of locations.

\* A location is the sequence of steps from the root: keys and indexes.
Key(k) == [key |-> k]
Idx(i) == [idx |-> i]

RECURSIVE ValAt(_, _)
ValAt(v, loc) ==
    IF loc = <<>> THEN v
    ELSE IF v.t = "obj" THEN ValAt(v.f[Head(loc).key], Tail(loc))
    ELSE ValAt(v.e[Head(loc).idx + 1], Tail(loc))

StepsOf(v) ==
    IF v.t = "obj" THEN {Key(k) : k \in DOMAIN v.f}
    ELSE IF v.t = "arr" THEN {Idx(i) : i \in 0..(Len(v.e) - 1)}
    ELSE {}

\* The indexes of an array of length len a slice selects (RFC 9535, 2.3.4.2.2).
SliceIndexes(s, len) ==
    LET b == Bounds(s, len)
    IN  IF s.step > 0
        THEN {i \in 0..(len - 1) : i >= b[1] /\ i < b[2] /\ (i - b[1]) % s.step = 0}
        ELSE IF s.step < 0
        THEN {i \in 0..(len - 1) : i > b[1] /\ i <= b[2] /\ (b[2] - i) % (-s.step) = 0}
        ELSE {}

\* The children of v a selector selects.
StepsSelected(sel, v) ==
    IF sel.k = "name"
    THEN IF v.t = "obj" /\ sel.n \in DOMAIN v.f THEN {Key(sel.n)} ELSE {}
    ELSE IF sel.k = "index"
    THEN IF v.t = "arr" /\ Normalize(sel.i, Len(v.e)) \in 0..(Len(v.e) - 1)
         THEN {Idx(Normalize(sel.i, Len(v.e)))}
         ELSE {}
    ELSE IF sel.k = "wild" THEN StepsOf(v)
    ELSE IF sel.k = "slice"
    THEN IF v.t = "arr" THEN {Idx(i) : i \in SliceIndexes(sel, Len(v.e))} ELSE {}
    ELSE {st \in StepsOf(v) : filterEval(sel, ValAt(v, <<st>>), v)}

\* loc and every location below it.
RECURSIVE Below(_, _)
Below(v, loc) ==
    {loc} \cup UNION {Below(v, Append(loc, st)) : st \in StepsOf(ValAt(v, loc))}

\* The locations a segment selects, applied to the locations in N.
SegLocs(seg, v, N) ==
    LET from == IF seg.descendant THEN UNION {Below(v, n) : n \in N} ELSE N
    IN  UNION {{Append(b, st) :
                   st \in UNION {StepsSelected(seg.selectors[j], ValAt(v, b)) :
                                    j \in 1..Len(seg.selectors)}} : b \in from}

RECURSIVE PathLocsFrom(_, _, _, _)
PathLocsFrom(path, v, N, i) ==
    IF i > Len(path) THEN N ELSE PathLocsFrom(path, v, SegLocs(path[i], v, N), i + 1)

\* The locations of v a path selects, and those a list of paths selects.
PathLocs(path, v) == PathLocsFrom(path, v, {<<>>}, 1)
Selected(ps, v) == UNION {PathLocs(ps[p], v) : p \in 1..Len(ps)}

IsPrefix(a, b) == Len(a) <= Len(b) /\ SubSeq(b, 1, Len(a)) = a

\* loc is a selected location or a container on the way to one.
OnTheWay(S, loc) == \E sl \in S : IsPrefix(loc, sl)

\* The empty container of the kind of v; a scalar is itself.
Shallow(v) ==
    IF v.t = "arr" THEN JArr(<<>>) ELSE IF v.t = "obj" THEN JObj([x \in {} |-> JNull]) ELSE v

RECURSIVE PickElems(_, _, _, _, _, _)
RECURSIVE Project(_, _, _, _, _)

\* The elements of the array at loc in the projection: in fixed mode up to
\* the last one on the way, null where none is; in ordered mode only those
\* on the way.
PickElems(v, S, loc, fixed, as, i) ==
    LET n == Len(ValAt(v, loc).e)
    IN  IF i >= n THEN <<>>
        ELSE LET here == Append(loc, Idx(i))
                 rest == PickElems(v, S, loc, fixed, as, i + 1)
             IN  IF OnTheWay(S, here) THEN <<Project(v, S, here, fixed, as)>> \o rest
                 ELSE IF fixed /\ rest # <<>> THEN <<JNull>> \o rest
                 ELSE rest

\* The projection of v onto S below loc. A selected location is kept
\* whole (as = "whole"); or as the empty container of its kind
\* (as = "there"), to ask only whether it is there; or marked
\* (as = "same"), to ask whether it is there and equal.
Project(v, S, loc, fixed, as) ==
    LET x == ValAt(v, loc)
    IN  IF loc \in S
        THEN IF as = "whole" THEN x
             ELSE IF as = "there" THEN Shallow(x)
             ELSE [t |-> "same", v |-> x]
        ELSE IF x.t = "obj"
        THEN JObj([k \in {k \in DOMAIN x.f : OnTheWay(S, Append(loc, Key(k)))} |->
                      Project(v, S, Append(loc, Key(k)), fixed, as)])
        ELSE IF x.t = "arr" THEN JArr(PickElems(v, S, loc, fixed, as, 0))
        ELSE x

\* x is part of y: a marked value of x is equal to y; every key of an
\* object of x is in y with a value that x's is part of; the elements of an
\* array of x are, in fixed mode, parts of those of y at the same indexes,
\* a null of x standing for no element; in ordered mode parts of elements
\* of y in the same order.
RECURSIVE PartOf(_, _, _)
RECURSIVE Embeds(_, _, _, _, _)
Embeds(xs, ys, fixed, i, j) ==
    IF i > Len(xs) THEN TRUE
    ELSE IF j > Len(ys) THEN FALSE
    ELSE \/ PartOf(xs[i], ys[j], fixed) /\ Embeds(xs, ys, fixed, i + 1, j + 1)
         \/ ~fixed /\ Embeds(xs, ys, fixed, i, j + 1)

PartOf(x, y, fixed) ==
    IF x.t = "same" THEN x.v = y
    ELSE IF fixed /\ x.t = "null" THEN TRUE
    ELSE IF x.t # y.t THEN FALSE
    ELSE IF x.t = "obj"
    THEN /\ DOMAIN x.f \subseteq DOMAIN y.f
         /\ \A k \in DOMAIN x.f : PartOf(x.f[k], y.f[k], fixed)
    ELSE IF x.t = "arr" THEN Embeds(x.e, y.e, fixed, 1, 1)
    ELSE x = y

IsContainer(v) == v.t = "obj" \/ v.t = "arr"

\* The locations of the input the paths given to New select.
Sel == Selected(paths, input)

\* The call of Select is over and returned.
Returned == pc = "done" /\ panic = ""

\* The output has every location in S, as it is in the input if as = "same".
Has(S, as) == PartOf(Project(input, S, <<>>, tree.index, as), out, tree.index)

\* ------------------------------------------------------------------ claims

\* C1: for an object or array input, every location selected by one of the
\* paths given to New is in the output of Select, with the containers on
\* the way to it (here for the calls that return).
Completeness == Returned /\ IsContainer(input) => Has(Sel, "there")

\* C2: the output of Select holds nothing but values at locations selected
\* by one of the paths given to New and the containers on the way to them:
\* it is part of the projection of the input onto the selected locations.
NoOverSelection ==
    Returned /\ Len(paths) > 0 /\ IsContainer(input) =>
        PartOf(out, Project(input, Sel, <<>>, tree.index, "whole"), tree.index)

\* C3: when Select has returned, the value the caller passed is what it was
\* before the call.
InputNotMutated == Returned => after = input

\* C4: a tree whose root has no children returns its input unchanged,
\* whatever the input and the mode.
IdentityProjection ==
    pc = "done" /\ Len(tree.root.children) = 0 =>
        panic = "" /\ out = input /\ after = input

\* C4 happens: a tree built from a path, with no child under its root, was
\* applied in ordered mode to an array holding a null and an array with a
\* null, and returned it.
IdentityProjectionWitness ==
    /\ pc = "done"
    /\ Len(paths) > 0
    /\ Len(tree.root.children) = 0
    /\ ~tree.index
    /\ input = JArr(<<JNull, JArr(<<JNull, JNum(1)>>)>>)
    /\ out = input

\* C5: in ordered mode the output for an array input is the selected
\* elements, in the order of the input, one after the other, with nothing
\* standing for an element not selected, and so in every array below.
OrderedArrays ==
    Returned /\ ~tree.index /\ Len(paths) > 0 /\ input.t = "arr" =>
        out = Project(input, Sel, <<>>, FALSE, "whole")

\* The selected elements of arrays whose value is null.
NullElems ==
    {l \in Sel : "idx" \in DOMAIN l[Len(l)] /\ ValAt(input, l) = JNull}

\* C6: in ordered mode an array element that is selected and is null is a
\* null of the output, at its place among the selected elements.
OrderedKeepsNulls ==
    Returned /\ ~tree.index /\ IsContainer(input) =>
        PartOf(Project(input, NullElems, <<>>, FALSE, "whole"), out, FALSE)

\* C7: in fixed mode the output for an array input has every selected
\* element at the index it has in the input, null at every lower index not
\* selected, and no element after the last selected one, and so in every
\* array below.
FixedArrays ==
    Returned /\ tree.index /\ Len(paths) > 0 /\ input.t = "arr" =>
        out = Project(input, Sel, <<>>, TRUE, "whole")

\* C8: a selected location that is in the output holds there a value equal
\* to the input's at that location, nulls inside it included.
LeafDeepEqual ==
    Returned /\ IsContainer(input) =>
        \A l \in Sel : Has({l}, "there") => Has({l}, "same")

\* C9: for a tree whose root has children Select returns null for a scalar
\* input, an object for an object, an array for an array, and the empty
\* object or array when the paths select nothing.
ResultKind ==
    pc = "done" /\ Len(tree.root.children) > 0 =>
        /\ panic = ""
        /\ ~IsContainer(input) => out = JNull
        /\ IsContainer(input) => out.t = input.t
        /\ IsContainer(input) /\ Sel = {} => out = Shallow(input)

\* The paths whose first segment has a negative index within the input.
NegativePaths ==
    {p \in 1..Len(paths) :
        \E j \in 1..Len(paths[p][1].selectors) :
            LET sel == paths[p][1].selectors[j]
            IN  sel.k = "index" /\ sel.i < 0 /\ -sel.i <= Len(input.e)}

\* C10: applied to an array of length n, a path that starts with an index
\* i < 0, -i <= n, selects the element at n + i: Select returns, and what
\* the path selects is in the output.
NegativeIndex ==
    pc = "done" /\ input.t = "arr" =>
        \A p \in NegativePaths :
            panic = "" /\ Has(PathLocs(paths[p], input), "there")

\* ------------------------------------------------------ the tree as a string

\* segment.go elbow, pipe, tee and blank: the box-drawing characters are
\* written here with ASCII characters, one for one.
elbow == "+-- "
pipe == "|   "
tee == "|-- "
blank == "    "

\* spec.SliceSelector.String of the jsonpath package: start, end and step
\* are left out where they have their default value, as in [2:3] and [::-1].
sliceString(sel) ==
    (IF sel.start # 0 /\ (sel.step >= 0 \/ sel.start # MaxInt) THEN ToString(sel.start) ELSE "")
        \o ":"
        \o (IF sel.end # MaxInt /\ (sel.step >= 0 \/ sel.end # -MaxInt - 1)
            THEN ToString(sel.end) ELSE "")
        \o (IF sel.step # 1 THEN ":" \o ToString(sel.step) ELSE "")

\* spec.Selector.String of the jsonpath package: the RFC 9535 bracketed form.
selString(sel) ==
    IF sel.k = "name" THEN "\"" \o sel.n \o "\""
    ELSE IF sel.k = "index" THEN ToString(sel.i)
    ELSE IF sel.k = "wild" THEN "*"
    ELSE IF sel.k = "slice" THEN sliceString(sel)
    ELSE "?" \o sel.s

\* segment.go writeTo, the loop over seg.selectors
RECURSIVE writeSelectors(_, _)
writeSelectors(selectors, i) ==
    IF i > Len(selectors) THEN ""
    ELSE (IF i > 1 THEN "," ELSE "") \o selString(selectors[i])
            \o writeSelectors(selectors, i + 1)

RECURSIVE writeTo(_, _, _)

\* segment.go writeTo, the loop over seg.children
RECURSIVE writeChildren(_, _, _)
writeChildren(children, prefix, i) ==
    IF i > Len(children) THEN ""
    ELSE writeTo(children[i], prefix, i = Len(children))
            \o writeChildren(children, prefix, i + 1)

\* segment.go writeTo: what it writes to buf.
writeTo(seg, prefix, last) ==
    prefix \o (IF last THEN elbow ELSE tee)
        \o (IF seg.descendant THEN ".." ELSE "")
        \o "[" \o writeSelectors(seg.selectors, 1) \o "]\n"
        \o writeChildren(seg.children, prefix \o (IF last THEN blank ELSE pipe), 1)

\* tree.go String, of the tree with this root
String(root) == "$\n" \o writeChildren(root.children, "", 1)

\* ------------------------------------------------------------ whole calls

\* What a caller can see of one call of Select, for every way it can end:
\* the panic that ended it, the value returned, the value its argument
\* holds afterwards, and the tree afterwards.
callSeen(t, l, r) ==
    {[panic |-> e.panic,
      out |-> IF e.panic = "" THEN read(e.h, r.ret) ELSE JNull,
      after |-> read(e.h, l.v),
      tree |-> treeAt(e.h, t.v)] : e \in Ends(r.st)}

callLoaded(t, l) == callSeen(t, l, Select(t.v, l.v, l.h))

callStored(t, v) == callLoaded(t, load(t.h, v))

\* t.Select(v) for a tree t as New returned it and a value v as
\* json.Unmarshal builds it: the set of what the caller can see.
Call(t, v) == callStored(storeTree(<<>>, t), v)

\* New(ps...).Select(v), and NewFixedModeTree(ps...).Select(v) if fixed.
Run(ps, fixed, v) == Call([root |-> New(ps), index |-> fixed], v)

\* t.Select(t.Select(v)): the second call is given what the first returned,
\* in the heap the first call left; a panic of the first call ends both.
againSeen(r1, r2) ==
    {[panic |-> e.panic,
      out |-> IF e.panic = "" THEN read(e.h, r2.ret) ELSE JNull] : e \in Ends(r2.st)}

againFrom(t, r1) ==
    IF r1.st.panic # "" THEN {[panic |-> e.panic, out |-> JNull] : e \in Ends(r1.st)}
    ELSE againSeen(r1, Select(t.v, r1.ret, r1.st.h))

againLoaded(t, l) == againFrom(t, Select(t.v, l.v, l.h))

againStored(t, v) == againLoaded(t, load(t.h, v))

CallTwice(t, v) == againStored(storeTree(<<>>, t), v)

\* -------------------------------------------------------- claims, continued

\* The locations of a value: every step sequence that leads to a value in it.
Locs(v) == Below(v, <<>>)

\* C11: Select never ends with the panic for a destination of the wrong
\* type, and what a destination slot holds is an object exactly when the
\* input holds an object at that location and an array exactly when it holds
\* an array: in fixed mode, where the output keeps the input's indexes, every
\* container of the output stands where the input has one of its kind.
DestinationTypes ==
    pc = "done" =>
        /\ panic \notin {"expected destination object", "expected destination array"}
        /\ panic = "" /\ tree.index =>
              \A l \in Locs(out) :
                 IsContainer(ValAt(out, l)) =>
                    l \in Locs(input) /\ ValAt(input, l).t = ValAt(out, l).t

\* C11 happens: the leaf of $.a stored the input's object under a, and the
\* segment [*] of $[*].b then selected into that destination.
DestinationTypesWitness ==
    /\ pc = "done"
    /\ panic = ""
    /\ tree.index
    /\ paths = << <<SpecSeg(FALSE, <<Name("a")>>)>>,
                  <<SpecSeg(FALSE, <<Wildcard>>), SpecSeg(FALSE, <<Name("b")>>)>> >>
    /\ Len(tree.root.children) = 2
    /\ input = JObj([k \in {"a"} |-> JObj([j \in {"b"} |-> JNum(1)])])
    /\ out = input

\* The lists the paths make in another order.
Reorderings(ps) ==
    {qs \in [1..Len(ps) -> {ps[i] : i \in 1..Len(ps)}] :
        \A i \in 1..Len(ps) :
           Cardinality({j \in 1..Len(ps) : qs[j] = ps[i]})
              = Cardinality({j \in 1..Len(ps) : ps[j] = ps[i]})}

\* C12: the tree compiled from the same paths in any other order gives the
\* same result of Select on the input.
OrderIndependence ==
    pc = "done" =>
        \A qs \in Reorderings(paths) :
           \E c \in Run(qs, tree.index, input) : c.panic = panic /\ c.out = out

\* -------------------------------------------------- selecting once more
\* Up to MaxAgainPaths paths of MaxAgainSegs segments in all, whose first
\* segment selects from an array by slices, forward and backward, by
\* indexes, by a wildcard or by a filter, and arrays of up to MaxAgainLen
\* elements to select from.
MaxAgainLen == 4
MaxAgainPaths == 2
MaxAgainSegs == 3

AgainFirst ==
    {SpecSeg(FALSE, <<x>>) :
        x \in {Slice(0, 2, 1), Slice(1, 3, 1), Slice(0, 4, 2), Slice(1, MaxInt, 1),
               Slice(3, 0, -2), Slice(-2, MaxInt, 1), Index(2), Index(-1), Wildcard,
               Name("a"), Filter("x")}}
        \cup {SpecSeg(FALSE, <<Slice(3, 0, -2), Index(2)>>),
              SpecSeg(TRUE, <<Slice(0, 2, 1)>>), SpecSeg(TRUE, <<Index(1)>>)}

AgainSecond ==
    {SpecSeg(FALSE, <<x>>) : x \in {Name("a"), Index(1), Slice(0, 2, 1)}}

AgainPaths == {<<f>> : f \in AgainFirst} \cup {<<f, g>> : f \in AgainFirst, g \in AgainSecond}

AgainElems == {JNull, JObj([a |-> JNum(1)]), JArr(<<JNull, JNum(1)>>)}

AgainInputs ==
    {JArr(e) : e \in SeqsUpTo(AgainElems, MaxAgainLen)}
        \cup {JObj([a |-> JArr(e)]) : e \in SeqsUpTo(AgainElems, 2)}

AddAgainPath ==
    /\ pc = "paths"
    /\ Len(paths) < MaxAgainPaths
    /\ \E p \in AgainPaths :
          /\ totalSegs(paths, 1) + Len(p) <= MaxAgainSegs
          /\ paths' = Append(paths, p)
    /\ UNCHANGED <<tree, pc, input, out, after, panic>>

\* One call of tree.Select(from) on one of these arrays.
DoSelectAgain ==
    /\ pc = "tree"
    /\ \E v \in AgainInputs :
          \E c \in Call(tree, v) :
             /\ input' = v
             /\ panic' = c.panic
             /\ out' = c.out
             /\ after' = c.after
             /\ tree' = c.tree
    /\ pc' = "done"
    /\ UNCHANGED paths

NextAgain == AddAgainPath \/ NewTree \/ NewFixedModeTree \/ DoSelectAgain

SpecAgain == Init /\ [][NextAgain]_vars

\* C13: Select applied to what Select returned returns the same again, in
\* ordered mode and in fixed mode.
Idempotence ==
    Returned =>
        \A c \in CallTwice(tree, input) : c.panic = "" /\ c.out = out

\* The paths hold no negative index, no slice with a negative bound or a
\* step that is not positive, and no filter: what they select of an array
\* does not depend on its length, nor on what else the array holds.
RECURSIVE AbsoluteSelectors(_, _)
AbsoluteSelectors(selectors, j) ==
    IF j > Len(selectors) THEN TRUE
    ELSE LET sel == selectors[j]
         IN  /\ sel.k = "index" => sel.i >= 0
             /\ sel.k = "slice" => sel.start >= 0 /\ sel.end >= 0 /\ sel.step > 0
             /\ sel.k # "filter"
             /\ AbsoluteSelectors(selectors, j + 1)

AbsolutePaths(ps) ==
    \A p \in 1..Len(ps) : \A i \in 1..Len(ps[p]) : AbsoluteSelectors(ps[p][i].selectors, 1)

\* C13 as amended: in fixed mode, for paths of names, wildcards, indexes
\* that are not negative and forward slices whose bounds are not negative,
\* Select applied to what Select returned returns the same again.
IdempotenceFixed ==
    pc = "done" /\ tree.index /\ AbsolutePaths(paths) =>
        /\ panic = ""
        /\ \A c \in CallTwice(tree, input) : c.panic = "" /\ c.out = out

\* C13 as amended happens: $[0:4:2].a in fixed mode gave
\* [{"a": 1}, null, {"a": 1}] from an array of four elements, with a null
\* for the element the slice steps over, and gives it again from that.
IdempotenceFixedWitness ==
    /\ pc = "done"
    /\ tree.index
    /\ paths = << <<SpecSeg(FALSE, <<Slice(0, 4, 2)>>), SpecSeg(FALSE, <<Name("a")>>)>> >>
    /\ input = JArr(<<JObj([a |-> JNum(1)]), JNull, JObj([a |-> JNum(1)]), JNull>>)
    /\ out = JArr(<<JObj([a |-> JNum(1)]), JNull, JObj([a |-> JNum(1)])>>)
    /\ \A c \in CallTwice(tree, input) : c.panic = "" /\ c.out = out

\* ---------------------------------------------- compilation of longer paths

\* Number of segments of one path, of paths of one tree, and of segments of
\* all paths of one tree together, where only New is called.
MaxCompileSegs == 3
MaxCompilePaths == 2
MaxCompileTotal == 5

\* The parsed segments these paths are made of: names, the wildcard, an
\* index, a slice that contains it, both in one segment, and a descendant
\* segment.
CompileSegs ==
    {SpecSeg(FALSE, <<x>>) : x \in {Name("a"), Name("b"), Wildcard, Index(1), Slice(0, 2, 1)}}
        \cup {SpecSeg(TRUE, <<Name("b")>>), SpecSeg(FALSE, <<Index(1), Slice(0, 2, 1)>>)}

CompilePaths == SeqsUpTo(CompileSegs, MaxCompileSegs) \ {<<>>}

\* A caller adds one more path to the arguments of New.
AddCompilePath ==
    /\ pc = "paths"
    /\ Len(paths) < MaxCompilePaths
    /\ \E p \in CompilePaths :
          /\ totalSegs(paths, 1) + Len(p) <= MaxCompileTotal
          /\ paths' = Append(paths, p)
    /\ UNCHANGED <<tree, pc, input, out, after, panic>>

NextCompile == AddCompilePath \/ NewTree

SpecCompile == Init /\ [][NextCompile]_vars

\* The segments of a tree below seg.
RECURSIVE SegsBelow(_)
SegsBelow(seg) ==
    UNION {{seg.children[i]} \cup SegsBelow(seg.children[i]) : i \in 1..Len(seg.children)}

\* path p is a prefix of path q, and shorter.
StrictPrefix(p, q) == Len(p) < Len(q) /\ SubSeq(q, 1, Len(p)) = p

\* C14: compiling the paths followed by one of them again gives a tree with
\* the same String() as compiling the paths.
DuplicatePath ==
    pc = "tree" =>
        \A i \in 1..Len(paths) :
           String(New(Append(paths, paths[i]))) = String(tree.root)

\* C15: the tree compiled from a path p and a path q that p is a prefix of,
\* in either order, is the tree compiled from p alone.
PrefixAbsorption ==
    pc = "tree" /\ Len(paths) = 2 =>
        \A i \in 1..2 :
           StrictPrefix(paths[i], paths[3 - i]) =>
              String(tree.root) = String(New(<<paths[i]>>))

\* C16: compiling the paths followed by a strict prefix of one of them gives
\* a tree with the same String() as compiling the paths.
PrefixAdded ==
    pc = "tree" =>
        \A i \in 1..Len(paths) :
           \A n \in 1..(Len(paths[i]) - 1) :
              String(New(Append(paths, SubSeq(paths[i], 1, n)))) = String(tree.root)

\* C17: in every segment of a compiled tree a wildcard is the only selector.
WildcardDominance ==
    pc = "tree" =>
        \A seg \in SegsBelow(tree.root) :
           (\E j \in 1..Len(seg.selectors) : seg.selectors[j].k = "wild") =>
              Len(seg.selectors) = 1

\* C18: in every segment of a compiled tree no selector is loosely
\* contained by another selector of the segment; and of the indexes of a
\* single parsed segment those remain that no slice of the segment contains.
NoRedundantSelectors ==
    pc = "tree" =>
        /\ \A seg \in SegsBelow(tree.root) :
              \A j, k \in 1..Len(seg.selectors) :
                 j # k => ~selectorsContain(<<seg.selectors[k]>>, seg.selectors[j]).ret
        /\ Len(paths) = 1 /\ Len(paths[1]) = 1 /\ Len(tree.root.children) = 1 =>
              LET sels == paths[1][1].selectors
                  kept == tree.root.children[1].selectors
              IN  \A j \in 1..Len(sels) :
                     sels[j].k = "index" =>
                        ((\E k \in 1..Len(kept) : kept[k] = sels[j])
                            <=> ~\E k \in 1..Len(sels) :
                                   sels[k].k = "slice" /\ containsIndex(<<sels[k]>>, sels[j]))

\* ------------------------------------------------ prefix slices, two modes
\* The paths that select a contiguous prefix of an array: $[0:n], $.a[0:n],
\* $[0:n].a and $[0:n][0:m].
PrefixSlice(n) == SpecSeg(FALSE, <<Slice(0, n, 1)>>)

PrefixSlicePaths ==
    {<<PrefixSlice(n)>> : n \in 0..MaxLen}
        \cup {<<SpecSeg(FALSE, <<Name("a")>>), PrefixSlice(n)>> : n \in 1..MaxLen}
        \cup {<<PrefixSlice(n), SpecSeg(FALSE, <<Name("a")>>)>> : n \in 1..MaxLen}
        \cup {<<PrefixSlice(n), PrefixSlice(m)>> : n, m \in 1..MaxLen}

\* A caller hands New one path that selects a prefix.
AddPrefixSlicePath ==
    /\ pc = "paths"
    /\ paths = <<>>
    /\ \E p \in PrefixSlicePaths : paths' = <<p>>
    /\ UNCHANGED <<tree, pc, input, out, after, panic>>

NextSlice == AddPrefixSlicePath \/ NewTree \/ NewFixedModeTree \/ DoSelect

SpecSlice == Init /\ [][NextSlice]_vars

\* C19: for a path that selects a contiguous prefix [0:n] of an array, the
\* tree of the other mode returns the same output for the same input (and
\* panics when this one does), whatever nulls the input holds.
PrefixSliceModes ==
    pc = "done" /\ Len(paths) = 1 =>
        \E c \in Run(paths, ~tree.index, input) : c.panic = panic /\ c.out = out

\* ------------------------------------- children of a descendant segment
\* The paths $..b.a and $..a.b: a descendant segment with the name k and a
\* child segment with the name c.
DescendPath(k, c) == <<SpecSeg(TRUE, <<Name(k)>>), SpecSeg(FALSE, <<Name(c)>>)>>

DescendPaths == {DescendPath("b", "a"), DescendPath("a", "b")}

\* The inputs: objects nested to depth three, with arrays of one element.
OneOf(S) == {JArr(<<x>>) : x \in S}

Deep1 == ObjectsOf(Scalars) \cup OneOf(Scalars)

Deep2 == ObjectsOf(Scalars \cup Deep1) \cup OneOf(Deep1)

DescendInputs == ObjectsOf(Scalars \cup Deep1 \cup Deep2)

\* A caller hands New one path ..[k][c].
AddDescendPath ==
    /\ pc = "paths"
    /\ paths = <<>>
    /\ \E p \in DescendPaths : paths' = <<p>>
    /\ UNCHANGED <<tree, pc, input, out, after, panic>>

\* One call of tree.Select(from) on a deeper object.
DoSelectDeep ==
    /\ pc = "tree"
    /\ \E v \in DescendInputs :
          \E c \in Call(tree, v) :
             /\ input' = v
             /\ panic' = c.panic
             /\ out' = c.out
             /\ after' = c.after
             /\ tree' = c.tree
    /\ pc' = "done"
    /\ UNCHANGED paths

NextDescend == AddDescendPath \/ NewTree \/ NewFixedModeTree \/ DoSelectDeep

SpecDescend == Init /\ [][NextDescend]_vars

\* The names k and c of the path given to New.
DescendKey == paths[1][1].selectors[1].n
ChildKey == paths[1][2].selectors[1].n

\* The location passes a key k: its value is stored under k or lies beneath.
Through(l, k) == \E i \in 1..Len(l) : l[i] = Key(k)

\* The objects of the input stored under a key k or beneath such a value.
ObjectsUnder(k) == {l \in Locs(input) : Through(l, k) /\ ValAt(input, l).t = "obj"}

\* The field c of each of these objects is in the output.
ChildFieldsKept ==
    \A l \in ObjectsUnder(DescendKey) :
        ChildKey \in DOMAIN ValAt(input, l).f => Append(l, Key(ChildKey)) \in Locs(out)

\* C20 as stated: below ..[k] with the child [c], the field c of every
\* object under or beneath a key k is in the output, and no scalar field of
\* these objects with another key is.
DescendantChildren ==
    pc = "done" /\ Len(paths) = 1 /\ panic = "" =>
        /\ ChildFieldsKept
        /\ \A l \in ObjectsUnder(DescendKey) :
              \A f \in DOMAIN ValAt(input, l).f \ {ChildKey} :
                 ~IsContainer(ValAt(input, l).f[f]) => Append(l, Key(f)) \notin Locs(out)

\* C20, amended: the call returns, the field c of every such object is in
\* the output, and a scalar field of these objects with another key is in
\* the output only inside the value of a field c, which is kept whole.
DescendantChildrenWhole ==
    pc = "done" /\ Len(paths) = 1 =>
        /\ panic = ""
        /\ ChildFieldsKept
        /\ \A l \in ObjectsUnder(DescendKey) :
              \A f \in DOMAIN ValAt(input, l).f \ {ChildKey} :
                 ~IsContainer(ValAt(input, l).f[f]) /\ Append(l, Key(f)) \in Locs(out)
                    => Through(l, ChildKey)

\* $..b.a on {"b":{"a":{"b":1},"b":1}} gives {"b":{"a":{"b":1}}}.
DescendantChildrenWitness ==
    /\ pc = "done"
    /\ panic = ""
    /\ paths = <<DescendPath("b", "a")>>
    /\ input = JObj([b |-> JObj([a |-> JObj([b |-> JNum(1)]), b |-> JNum(1)])])
    /\ out = JObj([b |-> JObj([a |-> JObj([b |-> JNum(1)])])])

\* ---------------------------------------------- child segments, one level
\* The paths $.a.b and $.b.a: a child segment with the name k, then a child
\* segment with the name c.
ChildPath(k, c) == <<SpecSeg(FALSE, <<Name(k)>>), SpecSeg(FALSE, <<Name(c)>>)>>

ChildPaths == {ChildPath("a", "b"), ChildPath("b", "a")}

\* A caller hands New one path [k][c].
AddChildPath ==
    /\ pc = "paths"
    /\ paths = <<>>
    /\ \E p \in ChildPaths : paths' = <<p>>
    /\ UNCHANGED <<tree, pc, input, out, after, panic>>

NextChild == AddChildPath \/ NewTree \/ NewFixedModeTree \/ DoSelectDeep

SpecChild == Init /\ [][NextChild]_vars

\* C21: a child segment matches only the immediate children of its value:
\* the output of the tree of $.k.c holds nothing but the member k of the
\* input and the member c of its value, so nothing below a key k nested
\* inside the value of the top-level key k.
ImmediateChildren ==
    pc = "done" /\ Len(paths) = 1 /\ panic = "" =>
        \A l \in Locs(out) :
            /\ Len(l) >= 1 => l[1] = Key(DescendKey)
            /\ Len(l) >= 2 => l[2] = Key(ChildKey)

\* ------------------------------------------- sibling segments, two kinds
\* Paths of child and descendant segments over the same selectors.
MaxSiblingPaths == 3
MaxSiblingTotal == 5

SiblingSelectors == {<<Name("a")>>, <<Name("b")>>, <<Name("a"), Name("b")>>, <<Wildcard>>}

SiblingSegs == {SpecSeg(d, sels) : d \in BOOLEAN, sels \in SiblingSelectors}

SiblingPaths == SeqsUpTo(SiblingSegs, MaxSegs) \ {<<>>}

\* A caller adds one more of these paths to the arguments of New.
AddSiblingPath ==
    /\ pc = "paths"
    /\ Len(paths) < MaxSiblingPaths
    /\ \E p \in SiblingPaths :
          /\ totalSegs(paths, 1) + Len(p) <= MaxSiblingTotal
          /\ paths' = Append(paths, p)
    /\ UNCHANGED <<tree, pc, input, out, after, panic>>

NextSiblings == AddSiblingPath \/ NewTree

SpecSiblings == Init /\ [][NextSiblings]_vars

\* The segments of the tree, the root among them.
AllSegs == {tree.root} \cup SegsBelow(tree.root)

\* C22: descendant dominates child. In a compiled tree, of two siblings
\* with the same branches of which exactly one is a descendant segment, the
\* other one holds no selector that the descendant segment contains, and no
\* segment is left without selectors.
DescendantDominates ==
    pc = "tree" =>
        \A seg \in AllSegs :
            /\ \A i \in 1..Len(seg.children) : Len(seg.children[i].selectors) > 0
            /\ \A i, j \in 1..Len(seg.children) :
                  /\ seg.children[i].descendant
                  /\ ~seg.children[j].descendant
                  /\ sameBranches(seg.children[i], seg.children[j])
                  => \A s \in 1..Len(seg.children[j].selectors) :
                        ~selectorsContain(seg.children[i].selectors, seg.children[j].selectors[s]).ret

\* ------------------------------------------------ calls sharing one tree
\* Callers goroutines call Select on one tree, each with an input of its
\* own; the calls are interleaved between the segments Select applies at the
\* root. In this specification the variables hold, per caller p: input[p],
\* out[p] and panic[p] as before; after holds the heap the callers share,
\* with the cells of the tree in it, the address of the tree, the tree as
\* New returned it and how far each call has come; tree is the tree the
\* callers find at that address.
Callers == 2

Procs == 1..Callers

SharedPaths ==
    {ChildPath("a", "b"), DescendPath("b", "a"),
     <<SpecSeg(FALSE, <<Name("a")>>)>>, <<SpecSeg(FALSE, <<Index(1)>>)>>,
     <<SpecSeg(FALSE, <<Slice(0, 2, 1)>>)>>,
     <<SpecSeg(FALSE, <<Wildcard>>), SpecSeg(FALSE, <<Name("a")>>)>>,
     <<SpecSeg(FALSE, <<Index(1)>>), SpecSeg(FALSE, <<Name("b")>>)>>}

SharedInputs ==
    Scalars \cup Containers1
        \cup {JObj([a |-> JObj([b |-> JNum(1)])]), JObj([b |-> JArr(<<JNull, JNum(1)>>)]),
              JArr(<<JNull, JObj([a |-> JNum(1), b |-> JNull])>>),
              JArr(<<JArr(<<JNull, JNum(1)>>), JNull>>)}

AddSharedPath ==
    /\ pc = "paths"
    /\ Len(paths) < MaxPaths
    /\ \E p \in SharedPaths : paths' = Append(paths, p)
    /\ UNCHANGED <<tree, pc, input, out, after, panic>>

Idle == [stage |-> "idle", from |-> HNil, dst |-> HNil, j |-> 0]

\* The goroutines are started on the tree New returned.
StartCalls ==
    /\ pc = "tree"
    /\ pc' = "calls"
    /\ input' = [p \in Procs |-> JNull]
    /\ out' = [p \in Procs |-> JNull]
    /\ panic' = [p \in Procs |-> ""]
    /\ \E t \in {storeTree(<<>>, tree)} :
          after' = [h |-> t.h, tree |-> t.v, compiled |-> tree,
                    at |-> [p \in Procs |-> Idle]]
    /\ UNCHANGED <<paths, tree>>

\* The call of caller p is over: what it returned, or the panic.
Ended(p, st, ret) ==
    \E e \in Ends(st) :
       /\ panic' = [panic EXCEPT ![p] = e.panic]
       /\ out' = [out EXCEPT ![p] = IF e.panic = "" THEN read(e.h, ret) ELSE JNull]
       /\ after' = [after EXCEPT !.h = e.h, !.at[p].stage = "done"]
       /\ tree' = treeAt(e.h, after.tree)

\* The call of caller p goes on at the root's segment number j.
GoesOn(p, h, stage, from, dst, j) ==
    /\ after' = [after EXCEPT !.h = h,
                              !.at[p] = [stage |-> stage, from |-> from, dst |-> dst, j |-> j]]
    /\ tree' = treeAt(h, after.tree)
    /\ UNCHANGED <<out, panic>>

\* tree.go Select, up to the call of selectObjectSegment or
\* selectArraySegment: the early return, and the destination made.
Begun(p, t, l) ==
    IF Len(l.h[l.h[t].root].children) = 0 THEN Ended(p, St(l.h, ""), l.v)
    ELSE IF l.v.t = "obj"
    THEN GoesOn(p, newObj(l.h), "obj", l.v, HObj(Len(l.h) + 1), 0)
    ELSE IF l.v.t = "arr"
    THEN GoesOn(p, newArr(l.h, capOf(l.h, l.v)), "arr", l.v, HArr(Len(l.h) + 1, 0, capOf(l.h, l.v)), 0)
    ELSE Ended(p, St(l.h, ""), HNil)

BeginCall(p) ==
    /\ pc = "calls"
    /\ after.at[p].stage = "idle"
    /\ \E v \in SharedInputs :
          /\ input' = [input EXCEPT ![p] = v]
          /\ Begun(p, after.tree, load(after.h, v))
    /\ UNCHANGED <<paths, pc>>

\* The segment selectObjectSegment and selectArraySegment apply in turn j:
\* the segment itself, then its children.
SegTurn(h, seg, j) == IF j = 0 THEN seg ELSE h[seg].children[j]

\* One turn of selectObjectSegment at the root is over with the state st.
ObjectTurned(p, c, st) ==
    IF st.panic # "" THEN Ended(p, st, HNil)
    ELSE GoesOn(p, st.h, "obj", c.from, c.dst, c.j + 1)

\* One turn of selectArraySegment at the root is over with r.
ArrayTurned(p, c, r) ==
    IF r.st.panic # "" THEN Ended(p, r.st, HNil)
    ELSE GoesOn(p, r.st.h, "arr", c.from, r.dst, c.j + 1)

StepCall(p) ==
    /\ pc = "calls"
    /\ after.at[p].stage \in {"obj", "arr"}
    /\ after.at[p].j <= Len(after.h[after.h[after.tree].root].children)
    /\ \E c \in {after.at[p]} :
          IF c.stage = "obj"
          THEN ObjectTurned(p, c, selectObject(after.tree,
                                               SegTurn(after.h, after.h[after.tree].root, c.j),
                                               c.from, c.from.a, c.dst.a, St(after.h, "")))
          ELSE ArrayTurned(p, c, selectArray(after.tree,
                                             SegTurn(after.h, after.h[after.tree].root, c.j),
                                             c.from, c.from, c.dst, St(after.h, "")))
    /\ UNCHANGED <<paths, pc, input>>

\* tree.go Select, the return.
Finished(p, r) == Ended(p, r.st, r.ret)

FinishCall(p) ==
    /\ pc = "calls"
    /\ after.at[p].stage \in {"obj", "arr"}
    /\ after.at[p].j > Len(after.h[after.h[after.tree].root].children)
    /\ \E c \in {after.at[p]} :
          IF c.stage = "obj"
          THEN Finished(p, selectedFromObject(after.tree, c.dst.a, St(after.h, "")))
          ELSE Finished(p, selectedFromArray(after.tree, HArr(c.dst.a, 0, c.dst.cap),
                              selectedArray([st |-> St(after.h, ""), dst |-> c.dst])))
    /\ UNCHANGED <<paths, pc, input>>

NextShared ==
    \/ AddSharedPath
    \/ NewTree
    \/ NewFixedModeTree
    \/ StartCalls
    \/ \E p \in Procs : BeginCall(p) \/ StepCall(p) \/ FinishCall(p)

SpecShared == Init /\ [][NextShared]_vars

\* C23: while the calls run, the tree the callers find in the heap they
\* share is the tree New returned, segment for segment, selector for
\* selector and flag for flag, and every call that is over has returned (or
\* panicked with) what the same call returns when it runs alone on a tree
\* of its own.
SharedTreeImmutable ==
    pc = "calls" =>
        /\ tree = after.compiled
        /\ treeAt(after.h, after.tree) = after.compiled
        /\ \A p \in Procs :
              after.at[p].stage = "done" =>
                  \E c \in Call(after.compiled, input[p]) :
                     panic[p] = c.panic /\ out[p] = c.out

\* Two calls of New($.a.b, $[1]) (ordered mode) were interleaved: caller 1
\* began on an object, caller 2 ran on an array, and both are over.
SharedTreeWitness ==
    /\ pc = "calls"
    /\ paths = <<ChildPath("a", "b"), <<SpecSeg(FALSE, <<Index(1)>>)>> >>
    /\ ~tree.index
    /\ \A p \in Procs : after.at[p].stage = "done"
    /\ input[1] = JObj([a |-> JObj([b |-> JNum(1)])])
    /\ input[2] = JArr(<<JNull, JObj([a |-> JNum(1), b |-> JNull])>>)
    /\ out[1] = input[1]
    /\ out[2] = JArr(<<JObj([a |-> JNum(1), b |-> JNull])>>)
    /\ after.at[1].dst.a < after.at[2].from.a
    /\ after.at[2].dst.a < Len(after.h)

\* ------------------------------------------------- the cursor of New
\* tree.go New, the loop PATH: the cursor the next path starts at, after
\* the paths from number p on have been folded.
RECURSIVE cursorAfter(_, _, _)
cursorAfter(r, ps, p) ==
    IF p > Len(ps) THEN r.cur
    ELSE cursorAfter(foldSegs(r.root, r.cur, ps[p], 1), ps, p + 1)

\* C24: after any path has been processed the cursor stands at the root,
\* whatever became of the path, so that the next path is folded from the
\* root.
FoldingStartsAtRoot ==
    pc = "tree" =>
        \A n \in 1..Len(paths) :
            cursorAfter([root |-> Child(<<>>), cur |-> <<>>], SubSeq(paths, 1, n), 1) = <<>>

\* ---------------------------------------------- segments of several slices
\* Paths of one segment that lists up to MaxSlices slices, as $[2:4,1:3,0:5].
MaxSlices == 3

SliceChoices ==
    {Slice(0, 5, 1), Slice(1, 3, 1), Slice(2, 4, 1), Slice(0, 2, 1), Slice(1, 5, 2),
     Slice(4, 1, -1)}

SlicesPaths == {<<SpecSeg(FALSE, sels)>> : sels \in SeqsUpTo(SliceChoices, MaxSlices) \ {<<>>}}

AddSlicesPath ==
    /\ pc = "paths"
    /\ Len(paths) < MaxPaths
    /\ \E p \in SlicesPaths : paths' = Append(paths, p)
    /\ UNCHANGED <<tree, pc, input, out, after, panic>>

NextSlices == AddSlicesPath \/ NewTree

SpecSlices == Init /\ [][NextSlices]_vars

\* C25: in every segment of a compiled tree no slice is contained, by the
\* slice-in-slice rule, in another slice of the segment.
SlicesIncomparable ==
    pc = "tree" =>
        \A seg \in AllSegs :
            \A i, j \in 1..Len(seg.selectors) :
                i # j /\ seg.selectors[i].k = "slice" /\ seg.selectors[j].k = "slice"
                    => ~sliceInSlice(seg.selectors[i], seg.selectors[j]).ret

\* ------------------------------------------------------ sibling segments
\* Branch equivalence as the specification defines it: the children of the
\* two segments match one for one, in both directions, in their selectors,
\* their descendant flag and, recursively, their branches.
RECURSIVE SameSubtrees(_, _)
MatchedIn(c, seg) ==
    \E j \in 1..Len(seg.children) :
        /\ {c.selectors[k] : k \in 1..Len(c.selectors)}
              = {seg.children[j].selectors[k] : k \in 1..Len(seg.children[j].selectors)}
        /\ c.descendant = seg.children[j].descendant
        /\ SameSubtrees(c, seg.children[j])

SameSubtrees(s1, s2) ==
    /\ Len(s1.children) = Len(s2.children)
    /\ \A i \in 1..Len(s1.children) : MatchedIn(s1.children[i], s2)
    /\ \A i \in 1..Len(s2.children) : MatchedIn(s2.children[i], s1)

\* C26: in a compiled tree no two siblings with the same descendant flag
\* have the same branches: deduplicate has merged them into one segment.
SiblingsMerged ==
    pc = "tree" =>
        \A seg \in AllSegs :
            \A i, j \in 1..Len(seg.children) :
                i # j /\ seg.children[i].descendant = seg.children[j].descendant
                    => ~SameSubtrees(seg.children[i], seg.children[j])

\* ------------------------------------------- containment of index and slice
\* Paths of one segment with two selectors, a slice and then an index or a
\* second slice, as $[1:3,2] and $[0:4:2,2:4:2]; selectorsFor asks whether
\* the first contains the second. MaxArrayLen bounds the lengths of the
\* arrays the selectors are compared on.
MaxArrayLen == 6

SliceEnds == -2..4

ContainSlices == {Slice(a, b, c) : a \in SliceEnds, b \in SliceEnds, c \in {1, 2, 3, -1, -2}}

ContainIndexes == {Index(i) : i \in -3..3}

ContainPaths ==
    {<<SpecSeg(FALSE, <<s, x>>)>> : s \in ContainSlices, x \in ContainIndexes \cup ContainSlices}

AddContainPath ==
    /\ pc = "paths"
    /\ paths = <<>>
    /\ \E p \in ContainPaths : paths' = <<p>>
    /\ UNCHANGED <<tree, pc, input, out, after, panic>>

NextContain == AddContainPath \/ NewTree

SpecContain == Init /\ [][NextContain]_vars

\* The two selectors of the path given to New.
FirstSel == paths[1][1].selectors[1]
SecondSel == paths[1][1].selectors[2]

\* The elements of an array of length len an index selects (RFC 9535).
IndexIndexes(idx, len) == {Normalize(idx.i, len)} \cap (0..(len - 1))

\* C27: when containsIndex says that a slice contains an index, then in an
\* array of any length the element the index selects is selected by the
\* slice too.
IndexInSliceSound ==
    pc = "tree" /\ Len(paths) = 1 /\ SecondSel.k = "index"
        /\ containsIndex(<<FirstSel>>, SecondSel)
        => \A len \in 0..MaxArrayLen :
              IndexIndexes(SecondSel, len) \subseteq SliceIndexes(FirstSel, len)

\* C28: when sliceInSlice(sub, sup) is true, then in an array of any length
\* every element sub selects is selected by sup too.
SliceInSliceSound ==
    pc = "tree" /\ Len(paths) = 1 /\ SecondSel.k = "slice"
        /\ sliceInSlice(SecondSel, FirstSel).ret
        => \A len \in 0..MaxArrayLen :
              SliceIndexes(SecondSel, len) \subseteq SliceIndexes(FirstSel, len)

\* ------------------------------------------------------ trailing wildcard
\* The tree selects the whole of what the parsed segments segs[i..] select
\* below node: node is a leaf, or the segments lead from node, through
\* children that hold their selectors, to a leaf.
RECURSIVE WholeBelow(_, _, _)
WholeBelow(node, segs, i) ==
    \/ Len(node.children) = 0
    \/ /\ i <= Len(segs)
       /\ \E j \in 1..Len(node.children) :
             /\ node.children[j].descendant = segs[i].descendant
             /\ hasSelectors(node.children[j], selectorsFor(segs[i]).selectors).ret
             /\ WholeBelow(node.children[j], segs, i + 1)

\* The last segment of the path holds a wildcard.
TrailingWild(p) == \E j \in 1..Len(p[Len(p)].selectors) : p[Len(p)].selectors[j].k = "wild"

\* C29: a trailing wildcard selects the parent. For every path given to New
\* whose last segment holds a wildcard, the segment the tree reaches by the
\* path's other segments is a leaf; the root itself, so the identity tree,
\* when the wildcard segment is the only one.
TrailingWildcardIsParent ==
    pc = "tree" =>
        \A n \in 1..Len(paths) :
            TrailingWild(paths[n])
                => WholeBelow(tree.root, SubSeq(paths[n], 1, Len(paths[n]) - 1), 1)

\* ------------------------------------------------ branches of two kinds
\* Two paths as $.a.b and $.b..b: two segments each, the first ones child
\* segments of one name each, with different names, the second ones of the
\* same names, one a child segment and one a descendant segment.
KindsDiffer(p, q) ==
    /\ Len(p) = 2 /\ Len(q) = 2
    /\ ~p[1].descendant /\ ~q[1].descendant
    /\ Len(p[1].selectors) = 1 /\ Len(q[1].selectors) = 1
    /\ p[1].selectors[1].k = "name" /\ q[1].selectors[1].k = "name"
    /\ p[1].selectors[1] # q[1].selectors[1]
    /\ p[2].selectors = q[2].selectors
    /\ \A j \in 1..Len(p[2].selectors) : p[2].selectors[j].k = "name"
    /\ p[2].descendant # q[2].descendant

\* C30: two segments whose children differ only in being a child segment
\* versus a descendant segment do not have the same branches: compiled from
\* two such paths, the tree keeps them apart, no segment below the root
\* holds the selectors of both.
KindsKeptApart ==
    pc = "tree" /\ Len(paths) = 2 /\ KindsDiffer(paths[1], paths[2]) =>
        \A j \in 1..Len(tree.root.children) :
            ~ /\ hasExactSelector(tree.root.children[j], paths[1][1].selectors[1])
              /\ hasExactSelector(tree.root.children[j], paths[2][1].selectors[1])

============================================================================
